---- MODULE Spec2Model ----
(***************************************************************************)
(* A model of the nocena-devs kanban board: the useTaskStorage hook (the   *)
(* state reconciler, the debounced writer and the retry layer), the API    *)
(* and localStorage persistence gateways, and the DataManager import path. *)
(***************************************************************************)
EXTENDS Integers, Sequences, FiniteSets, TLC

\* ------------------------------------------------------------------------
\* Bounds of the model
\* ------------------------------------------------------------------------

\* Largest task id offered to addTask / updateTask / deleteTask.
MaxTaskId == 2
\* Largest number of tasks the reconciler specification lets the list hold.
MaxTasks == 2

\* ------------------------------------------------------------------------
\* Data model (types.ts)
\* ------------------------------------------------------------------------

\* An optional field that is absent (undefined) is the empty tuple, a
\* present one is the one-element tuple holding its value.
Absent == << >>

Some(v) == << v >>

\* Developer ids: those of the board's demo columns (and of the tests).
DevIds == {"dev-1", "dev-2"}

\* Ids generateId('dev-') makes, dev-<timestamp>-<random>: never the id
\* of a demo column, and no two alike.
GeneratedIds == {"dev-g1", "dev-g2"}

\* The developer ids a board can come to hold. All of them split('-')[0]
\* to the same base name "dev".
BoardDevIds == DevIds \cup GeneratedIds

\* assignedTo?: string -- undefined is modelled by "none".
NoDev == "none"

TaskStatus == {"backlog", "assigned", "completed"}

TaskIds == 1 .. MaxTaskId

\* Point values (bounty) offered to addTask.
PointValues == {10}

\* Point values typed into the Add Task form.
CreatePoints == {10}

\* completionDetails.hoursSpent values offered to the operations.
HourValues == {8}

\* The model distinguishes no two Dates: every Date is this one value.
TheDate == "date"

EmptyState == [tasks |-> << >>, developers |-> << >>]

\* ------------------------------------------------------------------------
\* utils.ts
\* ------------------------------------------------------------------------

RECURSIVE SumPoints(_)
SumPoints(ts) ==
    IF ts = << >> THEN 0 ELSE Head(ts).points + SumPoints(Tail(ts))

\* task.completionDetails?.hoursSpent || 0
HoursOf(t) ==
    IF t.completionDetails = Absent THEN 0 ELSE t.completionDetails[1]

RECURSIVE SumHours(_)
SumHours(ts) ==
    IF ts = << >> THEN 0 ELSE HoursOf(Head(ts)) + SumHours(Tail(ts))

calculateDeveloperStats(tasks, developerId) ==
    LET developerTasks ==
            SelectSeq(tasks, LAMBDA t : t.assignedTo = developerId
                                        /\ t.status = "completed")
    IN  [totalPoints    |-> SumPoints(developerTasks),
         completedTasks |-> Len(developerTasks),
         totalHours     |-> SumHours(developerTasks)]

\* ------------------------------------------------------------------------
\* useTaskStorage: the state reconciler (pure state updaters)
\* ------------------------------------------------------------------------

\* developerId.split('-')[0] || 'dev'
BaseName(developerId) ==
    IF developerId \in BoardDevIds THEN "dev" ELSE developerId

\* Names are kept in the form the code compares them in (lower case).
\* The four patterns tried in order, then "Developer <base> <counter>".
NamePattern(k, base) ==
    CASE k = 1 -> << "developer", base, 0 >>
      [] k = 2 -> << "dev", base, 0 >>
      [] k = 3 -> << base, "developer", 0 >>
      [] OTHER -> << "team member", base, 0 >>

RECURSIVE NumberedName(_, _, _)
NumberedName(base, existingNames, counter) ==
    IF << "developer", base, counter >> \in existingNames
    THEN NumberedName(base, existingNames, counter + 1)
    ELSE << "developer", base, counter >>

generateDefaultDeveloperName(developerId, existingNames) ==
    LET base == BaseName(developerId)
        free == {k \in 1 .. 4 : NamePattern(k, base) \notin existingNames}
    IN  IF free # {}
        THEN NamePattern(CHOOSE k \in free : \A j \in free : k <= j, base)
        ELSE NumberedName(base, existingNames, 1)

HasDeveloper(developers, id) ==
    \E k \in 1 .. Len(developers) : developers[k].id = id

NamesOf(developers) == {developers[k].name : k \in 1 .. Len(developers)}

\* updatedDevelopers.forEach(dev => { dev.totalPoints = ...; ... })
RecomputeStats(tasks, developers) ==
    [k \in 1 .. Len(developers) |->
        LET stats == calculateDeveloperStats(tasks, developers[k].id)
        IN  [id             |-> developers[k].id,
             name           |-> developers[k].name,
             totalPoints    |-> stats.totalPoints,
             completedTasks |-> stats.completedTasks,
             totalHours     |-> stats.totalHours]]

\* assignedDeveloperIds.forEach(devId => { if (!find) push(...) }), walking
\* the ids in the order of their first appearance in tasks.
RECURSIVE Provision(_, _, _)
Provision(tasks, developers, i) ==
    IF i > Len(tasks) THEN developers
    ELSE LET devId == tasks[i].assignedTo
         IN  IF devId # NoDev /\ ~HasDeveloper(developers, devId)
             THEN LET stats == calculateDeveloperStats(tasks, devId)
                      newDev ==
                          [id             |-> devId,
                           name           |-> generateDefaultDeveloperName(
                                                  devId, NamesOf(developers)),
                           totalPoints    |-> stats.totalPoints,
                           completedTasks |-> stats.completedTasks,
                           totalHours     |-> stats.totalHours]
                  IN  Provision(tasks, Append(developers, newDev), i + 1)
             ELSE Provision(tasks, developers, i + 1)

\* A plausible slip: statistics are recomputed but nobody is provisioned.
updateDeveloperStats_NoProvision(tasks, developers) ==
    RecomputeStats(tasks, developers)

updateDeveloperStats(tasks, developers) ==
    Provision(tasks, RecomputeStats(tasks, developers), 1)

\* { ...task, ...updates }: updates is a Partial<Task>, a record whose
\* domain is the set of fields it carries.
MergeTask(task, updates) ==
    [f \in DOMAIN task |-> IF f \in DOMAIN updates THEN updates[f] ELSE task[f]]

addTask(prevState, task) ==
    LET newTasks == Append(prevState.tasks, task)
    IN  [tasks      |-> newTasks,
         developers |-> updateDeveloperStats(newTasks, prevState.developers)]

updateTask(prevState, taskId, updates) ==
    LET newTasks ==
            [k \in 1 .. Len(prevState.tasks) |->
                IF prevState.tasks[k].id = taskId
                THEN MergeTask(prevState.tasks[k], updates)
                ELSE prevState.tasks[k]]
    IN  [tasks      |-> newTasks,
         developers |-> updateDeveloperStats(newTasks, prevState.developers)]

deleteTask(prevState, taskId) ==
    LET newTasks == SelectSeq(prevState.tasks, LAMBDA t : t.id # taskId)
    IN  [tasks      |-> newTasks,
         developers |-> updateDeveloperStats(newTasks, prevState.developers)]

\* The index of the first developer with this id (findIndex), 0 if none.
FindIndex(developers, id) ==
    IF HasDeveloper(developers, id)
    THEN CHOOSE k \in 1 .. Len(developers) :
            /\ developers[k].id = id
            /\ \A j \in 1 .. (k - 1) : developers[j].id # id
    ELSE 0

updateDeveloper(prevState, developer) ==
    LET existingIndex == FindIndex(prevState.developers, developer.id)
    IN  [tasks      |-> prevState.tasks,
         developers |->
            IF existingIndex > 0
            THEN [prevState.developers EXCEPT ![existingIndex] = developer]
            ELSE Append(prevState.developers, developer)]

\* A plausible slip: the record is appended without looking for its id.
addDeveloper_NoCheck(prevState, developer) ==
    [tasks      |-> prevState.tasks,
     developers |-> Append(prevState.developers, developer)]

addDeveloper(prevState, developer) ==
    IF HasDeveloper(prevState.developers, developer.id)
    THEN prevState
    ELSE [tasks      |-> prevState.tasks,
          developers |-> Append(prevState.developers, developer)]

\* A plausible slip: the status test is dropped, so completed tasks are
\* sent back to the backlog with the others.
deleteDeveloper_AllTasks(prevState, developerId) ==
    [tasks |->
        [k \in 1 .. Len(prevState.tasks) |->
            IF prevState.tasks[k].assignedTo = developerId
            THEN [prevState.tasks[k] EXCEPT !.status = "backlog",
                                            !.assignedTo = NoDev]
            ELSE prevState.tasks[k]],
     developers |->
        SelectSeq(prevState.developers, LAMBDA d : d.id # developerId)]

\* A plausible slip: the status is reset and the assignee is left.
deleteDeveloper_KeepsAssignee(prevState, developerId) ==
    [tasks |->
        [k \in 1 .. Len(prevState.tasks) |->
            IF /\ prevState.tasks[k].assignedTo = developerId
               /\ prevState.tasks[k].status # "completed"
            THEN [prevState.tasks[k] EXCEPT !.status = "backlog"]
            ELSE prevState.tasks[k]],
     developers |->
        SelectSeq(prevState.developers, LAMBDA d : d.id # developerId)]

\* deleteDeveloper without the pass over the tasks.
deleteDeveloper_KeepsTasks(prevState, developerId) ==
    [tasks |-> prevState.tasks,
     developers |->
        SelectSeq(prevState.developers, LAMBDA d : d.id # developerId)]

deleteDeveloper(prevState, developerId) ==
    [tasks |->
        [k \in 1 .. Len(prevState.tasks) |->
            IF /\ prevState.tasks[k].assignedTo = developerId
               /\ prevState.tasks[k].status # "completed"
            THEN [prevState.tasks[k] EXCEPT !.status = "backlog",
                                            !.assignedTo = NoDev]
            ELSE prevState.tasks[k]],
     developers |->
        SelectSeq(prevState.developers, LAMBDA d : d.id # developerId)]

\* The count deleteDeveloper logs: the tasks it sent back to the backlog.
reassignedCount(prevState, developerId) ==
    Cardinality({k \in 1 .. Len(prevState.tasks) :
                    /\ prevState.tasks[k].assignedTo = developerId
                    /\ prevState.tasks[k].status # "completed"})

\* The periodic sweep's updater. hasChanges is IsOrphaned of some task.
IsOrphaned(prevState, task) ==
    task.assignedTo # NoDev /\ ~HasDeveloper(prevState.developers, task.assignedTo)

\* The sweep with the status assignment left out.
validateAndCleanup_KeepsStatus(prevState) ==
    IF \E k \in 1 .. Len(prevState.tasks) : IsOrphaned(prevState, prevState.tasks[k])
    THEN [tasks |->
            [k \in 1 .. Len(prevState.tasks) |->
                IF IsOrphaned(prevState, prevState.tasks[k])
                THEN [prevState.tasks[k] EXCEPT !.assignedTo = NoDev]
                ELSE prevState.tasks[k]],
          developers |-> prevState.developers]
    ELSE prevState

validateAndCleanup(prevState) ==
    IF \E k \in 1 .. Len(prevState.tasks) : IsOrphaned(prevState, prevState.tasks[k])
    THEN [tasks |->
            [k \in 1 .. Len(prevState.tasks) |->
                IF IsOrphaned(prevState, prevState.tasks[k])
                THEN [prevState.tasks[k] EXCEPT !.status = "backlog",
                                                !.assignedTo = NoDev]
                ELSE prevState.tasks[k]],
          developers |-> prevState.developers]
    ELSE prevState

\* ------------------------------------------------------------------------
\* Object identity
\* ------------------------------------------------------------------------

\* The updaters build new arrays, but not always new objects, and two of
\* them write into the objects of prevState: updateDeveloperStats assigns
\* the recomputed totals to the developer objects it was given, and
\* validateAndCleanup assigns status and assignedTo to the task objects it
\* was given. Whoever still holds one of those objects (a pending timeout,
\* the closure of a save that has not settled) sees the write.
\*
\* For each updater, where every object of prevState is found in the
\* state it returns: its position there, or 0 when the new state holds
\* another object in its place or none.
Same(seq) == [k \in 1 .. Len(seq) |-> k]

Replaced(seq) == [k \in 1 .. Len(seq) |-> 0]

\* filter(keep): the position of each element among those kept.
Filtered(seq, Keep(_)) ==
    [k \in 1 .. Len(seq) |->
        IF Keep(seq[k])
        THEN Cardinality({j \in 1 .. k : Keep(seq[j])})
        ELSE 0]

\* addTask, addDeveloper, validateAndCleanup: every object stays.
KeepsAll(prevState) ==
    [tasks |-> Same(prevState.tasks), developers |-> Same(prevState.developers)]

\* setState(loadedData): every object is new.
KeepsNone(prevState) ==
    [tasks |-> Replaced(prevState.tasks), developers |-> Replaced(prevState.developers)]

\* updateTask: { ...task, ...updates } is a new object.
updateTaskKeeps(prevState, taskId) ==
    [tasks |-> [k \in 1 .. Len(prevState.tasks) |->
                   IF prevState.tasks[k].id = taskId THEN 0 ELSE k],
     developers |-> Same(prevState.developers)]

deleteTaskKeeps(prevState, taskId) ==
    [tasks |-> Filtered(prevState.tasks, LAMBDA t : t.id # taskId),
     developers |-> Same(prevState.developers)]

\* updateDeveloper: newDevelopers[existingIndex] = developer.
updateDeveloperKeeps(prevState, developer) ==
    [tasks |-> Same(prevState.tasks),
     developers |-> [k \in 1 .. Len(prevState.developers) |->
                        IF k = FindIndex(prevState.developers, developer.id)
                        THEN 0 ELSE k]]

\* deleteDeveloper: the tasks sent back to the backlog are new objects.
deleteDeveloperKeeps(prevState, developerId) ==
    [tasks |-> [k \in 1 .. Len(prevState.tasks) |->
                   IF /\ prevState.tasks[k].assignedTo = developerId
                      /\ prevState.tasks[k].status # "completed"
                   THEN 0 ELSE k],
     developers |-> Filtered(prevState.developers,
                             LAMBDA d : d.id # developerId)]

\* What a holder of objects of the state of instance i holds after the
\* state became newState: an object still in the state has the value it
\* has there, any other keeps the value it had.
Rebind(h, i, newState, keeps) ==
    IF h.inst # i THEN h
    ELSE LET lt == [k \in 1 .. Len(h.data.tasks) |->
                       IF h.live.tasks[k] = 0 THEN 0
                       ELSE keeps.tasks[h.live.tasks[k]]]
             ld == [k \in 1 .. Len(h.data.developers) |->
                       IF h.live.developers[k] = 0 THEN 0
                       ELSE keeps.developers[h.live.developers[k]]]
         IN  [h EXCEPT
                !.live = [tasks |-> lt, developers |-> ld],
                !.data = [tasks |->
                             [k \in 1 .. Len(h.data.tasks) |->
                                 IF lt[k] = 0 THEN h.data.tasks[k]
                                 ELSE newState.tasks[lt[k]]],
                          developers |->
                             [k \in 1 .. Len(h.data.developers) |->
                                 IF ld[k] = 0 THEN h.data.developers[k]
                                 ELSE newState.developers[ld[k]]]]]

\* ------------------------------------------------------------------------
\* State
\* ------------------------------------------------------------------------

\* The components that call useTaskStorage(): KanbanBoard and, rendered
\* inside it, DataManager. Each call owns its own useState cells.
Inst == {"board", "dm"}

\* A timeout or a fetch outlives the component that started it: once
\* DataManager is unmounted its pending callbacks still run, against a hook
\* instance no render reads any more. The callbacks of one unmounted
\* instance go on sharing its retryCountRef; DataManager mounted again is
\* another instance. Unmounted instances are told apart for as long as
\* one of their callbacks is pending, at most this many at a time.
DetachedInsts == {"detached-1", "detached-2"}

Owners == Inst \cup DetachedInsts

\* What the user can do on the page, and what else calls into the
\* program: Save (forceSave), Reload (reloadData), the error screen's Try
\* Again (clearError), DataManager's Import Data, a drop on a column, a
\* submitted completion, the buttons of the developer modal (Add
\* Developer, Edit followed by Update Developer, Delete), one run of the
\* 30 s interval, and a call of apiStorage.clearData().
Buttons ==
    {"save", "reload", "tryAgain", "import", "drop", "complete",
     "addDeveloper", "updateDeveloper", "deleteDeveloper", "sweep", "clear"}

VARIABLES
    state,          \* [Inst -> AppState]   useState<AppState>
    isLoading,      \* [Inst -> BOOLEAN]    useState(true)
    error,          \* [Inst -> string]     useState<string | null>
    isSaving,       \* [Inst -> BOOLEAN]    useState(false)
    lastSaved,      \* [Inst -> Absent | Some(TheDate)]
    retryCountRef,  \* [Owners -> Nat]      useRef(0)
    editingDeveloper, \* the developer object the modal's form edits
    mounted,        \* [Inst -> BOOLEAN]    the component is rendered
    timers,         \* pending setTimeout callbacks, in creation order
    net,            \* fetch() calls in flight, in creation order
    readers,        \* FileReader reads in progress, in creation order
    stored,         \* the document held by the key-value store
    root,           \* what is rendered: the page or the hook on its own
    nextId,         \* number of ids generateId has handed out
    sinceChange,    \* 500 ms units since the auto-save effect last ran
    sentIds,        \* task ids carried by the save requests sent so far
    faults,         \* how many requests have failed so far
    presses,        \* [Buttons -> Nat] how often each button was pressed
    anySaveOk,      \* some save request was confirmed by the store
    errorsShown,    \* the values error has held in the renders so far
    last,           \* the step just taken
    ls,             \* window.localStorage, the keys of storage.ts
    gw              \* the last call of each gateway and what it returned

hookVars == << state, isLoading, error, isSaving, lastSaved, retryCountRef,
               editingDeveloper, mounted, timers, net >>

\* What a render of a hook instance and its effects determine.
renderVars == << state, isLoading, error, isSaving, lastSaved, retryCountRef,
                 editingDeveloper, mounted, sinceChange, errorsShown >>

ghostVars == << sinceChange, sentIds, anySaveOk, errorsShown, last >>

gatewayVars == << ls, gw >>

vars == << state, isLoading, error, isSaving, lastSaved, retryCountRef,
           editingDeveloper, mounted, timers, net, readers, stored, root, faults, presses,
           nextId, sinceChange, sentIds, anySaveOk, errorsShown, last,
           ls, gw >>

\* ------------------------------------------------------------------------
\* Program constants
\* ------------------------------------------------------------------------

\* const maxRetries = 3
maxRetries == 3

\* debounce(saveFunction, 500): the delay, in units of 500 ms.
DebounceDelay == 1

\* 1000 * n milliseconds, in units of 500 ms.
RetryDelay(n) == 2 * n

NoError == "null"

FailedSave ==
    "Failed to save data after multiple attempts. Your changes may be lost."

FailedManual == "Failed to save data manually"

FailedLoad == "Failed to load data: error"

\* ------------------------------------------------------------------------
\* Bounds of the hook specifications
\* ------------------------------------------------------------------------

\* Largest number of tasks KanbanBoard creates in one run.
MaxCreates == 1
\* Largest number of fetch() calls in flight when a button is pressed or
\* time passes.
MaxInFlight == 2
\* Largest number of requests that fail in one run: a request fails when
\* the network drops it or its response, when the answer is not OK, or
\* when the key-value store throws.
MaxFaults == 2

\* How often each button is pressed, or each function of the hook called,
\* in one run.
MaxPresses == 2

Press(b) ==
    /\ presses[b] < MaxPresses
    /\ presses' = [presses EXCEPT ![b] = @ + 1]

\* How many times the board or the hook has been acted on: created tasks,
\* presses, runs of the sweep and calls that clear the store. clearError
\* is not counted: it needs an error to be showing.
Acted ==
    nextId + presses["save"] + presses["reload"] + presses["import"]
    + presses["drop"] + presses["complete"] + presses["addDeveloper"]
    + presses["updateDeveloper"] + presses["deleteDeveloper"]
    + presses["sweep"] + presses["clear"]

\* Largest number of user actions and failed requests, taken together, in
\* one run of the page: two user actions, one and a failed request, or two
\* failed requests.
MaxPageEvents == 2

\* The run of the page is within that number.
WithinPageEvents == Acted + faults <= MaxPageEvents

\* The run of the page has room for one more user action or failed
\* request.
Spare == Acted + faults < MaxPageEvents

\* One more request fails.
Fault ==
    /\ faults < MaxFaults
    /\ faults' = faults + 1

\* ------------------------------------------------------------------------
\* The wire format and the API gateway (apiStorage.ts, api/data/route.ts)
\* ------------------------------------------------------------------------

\* A Date is << "Date", t >>, the ISO string JSON.stringify makes of it is
\* << "string", t >>.
DateOf(t) == << "Date", t >>

\* JSON.stringify of an optional date field.
StringifyDate(field) ==
    IF field = Absent THEN Absent ELSE Some(<< "string", field[1][2] >>)

\* The keys deserializeDates looks for.
DateFields == {"createdAt", "completedAt"}

\* JSON.stringify(state) as the POST handler reads it back: every Date
\* becomes its ISO string.
Stringify(s) ==
    [tasks      |-> [k \in 1 .. Len(s.tasks) |->
                        [f \in DOMAIN s.tasks[k] |->
                            IF f \in DateFields
                            THEN StringifyDate(s.tasks[k][f])
                            ELSE s.tasks[k][f]]],
     developers |-> s.developers]

\* A plausible slip: the strings are left as they are.
ReviveDate_Skip(field) == field

\* if (result.completedAt && typeof result.completedAt === 'string')
\*     result.completedAt = new Date(result.completedAt)
ReviveDate(field) ==
    IF field # Absent /\ field[1][1] = "string"
    THEN Some(DateOf(field[1][2]))
    ELSE field

deserializeDates(doc) ==
    [tasks      |-> [k \in 1 .. Len(doc.tasks) |->
                        [f \in DOMAIN doc.tasks[k] |->
                            IF f \in DateFields
                            THEN ReviveDate(doc.tasks[k][f])
                            ELSE doc.tasks[k][f]]],
     developers |-> doc.developers]

\* What one GET /api/data can come to.
\*   ok           200 with the document the handler read
\*   kvError      kv.get threw: the handler answers 200 with DEFAULT_STATE
\*   networkError fetch rejected
\*   httpError    a response with ok = false
\*   badJson      response.json() rejected
LoadOutcomes == {"ok", "kvError", "networkError", "httpError", "badJson"}

FailedOutcomes == {"kvError", "networkError", "httpError", "badJson"}

\* What the handler itself can answer, and what the network in front of
\* it can make of a request.
ServedOutcomes == {"ok", "kvError"}

Returned(v) == [threw |-> FALSE, value |-> v]

Thrown == [threw |-> TRUE, value |-> EmptyState]

\* The body of loadData's try block, doc being what the handler read.
apiLoadBody(outcome, doc) ==
    CASE outcome = "ok"      -> Returned(deserializeDates(doc))
      [] outcome = "kvError" -> Returned(deserializeDates(EmptyState))
      [] OTHER               -> Thrown

\* A plausible slip: no catch around the fetch.
apiLoadData_NoCatch(outcome, doc) == apiLoadBody(outcome, doc)

\* loadData of apiStorage.ts: the catch returns the empty state.
apiLoadData(outcome, doc) ==
    IF apiLoadBody(outcome, doc).threw
    THEN Returned(EmptyState)
    ELSE apiLoadBody(outcome, doc)

\* ------------------------------------------------------------------------
\* Timers and requests
\* ------------------------------------------------------------------------

LoadOps == {"load", "apiLoad"}

SaveOps == {"save", "retrySave", "forceSave"}

\* A fetch() in flight. body is the text JSON.stringify made when fetch
\* was called; data and live are the objects the caller's closure still
\* holds; served and doc are the handler's answer once it has run.
Request(i, op, data, rc, captured, cause) ==
    [inst |-> i, op |-> op, data |-> data, live |-> KeepsNone(data),
     body |-> Stringify(data), served |-> "no", doc |-> EmptyState,
     retryCount |-> rc, captured |-> captured, cause |-> cause]

Timer(i, kind, data, remaining, rc, captured, cause) ==
    [inst |-> i, kind |-> kind, data |-> data, live |-> KeepsNone(data),
     remaining |-> remaining, retryCount |-> rc, captured |-> captured,
     cause |-> cause]

\* The holder holds the very objects of live.
Holding(h, live) == [h EXCEPT !.live = live]

RemoveAt(seq, k) ==
    [j \in 1 .. (Len(seq) - 1) |-> IF j < k THEN seq[j] ELSE seq[j + 1]]

\* debounce of utils.ts: clearTimeout(timeoutId), then setTimeout(..., delay).
\* The timeout holds the state object it was called with and remembers
\* what produced it.
debounce(ts, i, data, cause) ==
    Append(SelectSeq(ts, LAMBDA t : ~(t.inst = i /\ t.kind = "debounce")),
           Holding(Timer(i, "debounce", data, DebounceDelay, 0, NoError, cause),
                   KeepsAll(data)))

TaskIdsOf(s) == {s.tasks[k].id : k \in 1 .. Len(s.tasks)}

Step(kind, i, ok, n, cause) ==
    [kind |-> kind, inst |-> i, ok |-> ok, n |-> n, cause |-> cause]

NoStep == Step("none", "board", TRUE, 0, "none")

\* Time is counted in steps of 500 ms. A timeout that is due runs before
\* anything else happens at that instant: what could come just before it
\* is what could come before the clock moved.
TimerReady == \E k \in 1 .. Len(timers) : timers[k].remaining = 0

\* ------------------------------------------------------------------------
\* api/data/route.ts: the handlers
\* ------------------------------------------------------------------------

\* The route handler runs for one request: GET reads the stored document
\* (kv.get), POST writes the body (kv.set), DELETE removes the document
\* (kv.del). When the store throws, GET answers DEFAULT_STATE with 200 and
\* POST and DELETE answer 500. Every body the program posts has its two
\* arrays, so POST's 400 is never taken.
Serve(k, kvOk) ==
    /\ ~TimerReady
    /\ k \in 1 .. Len(net)
    /\ net[k].served = "no"
    /\ IF kvOk THEN UNCHANGED faults ELSE Fault
    /\ net' = [net EXCEPT ![k] =
                  [@ EXCEPT !.served = IF kvOk THEN "ok" ELSE "kvError",
                            !.doc = IF kvOk /\ net[k].op \in LoadOps
                                    THEN stored ELSE EmptyState]]
    /\ stored' = CASE ~kvOk                 -> stored
                   [] net[k].op \in LoadOps -> stored
                   [] net[k].op = "clear"   -> EmptyState
                   [] OTHER                 -> net[k].body
    /\ last' = Step("served", net[k].inst, kvOk, 0, net[k].op)
    /\ UNCHANGED << renderVars, timers, readers, root, presses, nextId,
                    sentIds, anySaveOk, ls, gw >>

\* How the GET of request k settles under this outcome: with the handler's
\* answer, or with a failure of the network around it.
LoadSettles(k, outcome) ==
    IF outcome \in ServedOutcomes
    THEN net[k].served = outcome /\ UNCHANGED faults
    ELSE Fault

\* How the POST or DELETE of request k settles: saveData returns true
\* exactly when the handler answered {success: true}; it returns false on
\* the handler's 500 and on any failure of the network around it, whether
\* or not the handler has run.
SaveSettles(k, ok) ==
    IF ok
    THEN net[k].served = "ok" /\ UNCHANGED faults
    ELSE \/ net[k].served = "kvError" /\ UNCHANGED faults
         \/ Fault

\* ------------------------------------------------------------------------
\* A render of one hook instance and the effects that follow it
\* ------------------------------------------------------------------------

\* The auto-save effect (deps [state, isLoading, debouncedSave]) runs when
\* the state object or isLoading changed and calls debouncedSave(state)
\* unless isLoading.
AutoSaveRuns(i, identityChanged, newIsLoading) ==
    (identityChanged \/ newIsLoading # isLoading[i]) /\ ~newIsLoading

\* A field of a record of changes, or what holds when it names none.
Opt(ch, f, d) == IF f \in DOMAIN ch THEN ch[f] ELSE d

\* Instance o has a timeout, a fetch or a file read pending.
HasCallback(o, ts, nt, rds) ==
    \/ \E k \in 1 .. Len(ts) : ts[k].inst = o
    \/ \E k \in 1 .. Len(nt) : nt[k].inst = o
    \/ \E k \in 1 .. Len(rds) : rds[k].inst = o

\* The unmounted instances none of whose callbacks is left.
FreeSlots == {o \in DetachedInsts : ~HasCallback(o, timers, net, readers)}

FreeSlot == IF "detached-1" \in FreeSlots THEN "detached-1" ELSE "detached-2"

\* A callback of DataManager once it is unmounted: it holds the objects of
\* a hook instance nothing reads or writes any more, and goes on sharing
\* the retryCountRef of that instance with its other callbacks.
Detach(h, slot) ==
    IF h.inst # "dm" THEN h
    ELSE [h EXCEPT !.inst = slot, !.live = KeepsNone(h.data)]

\* The refs of the instances that are mounted or have a callback pending;
\* the ref of an unmounted instance goes with its last callback.
Collected(ref, ts, nt, rds) ==
    [o \in Owners |->
        IF o \in DetachedInsts /\ ~HasCallback(o, ts, nt, rds)
        THEN 0 ELSE ref[o]]

\* editingDeveloper of DeveloperManagementModal: the developer object of
\* the board's state that Edit was clicked on, held by the modal.
Editing(developer, k) ==
    [inst |-> "board",
     data |-> [tasks |-> << >>, developers |-> << developer >>],
     live |-> [tasks |-> << >>, developers |-> << k >>]]

\* editingDeveloper === null
NoEdit == [inst |-> "board", data |-> EmptyState, live |-> EmptyState]

\* The state updates of one callback of instance i, the render they cause
\* and the effects after it. update (ch) names what the callback set:
\* state (with changed when it is a new object, and keeps for the objects
\* it shares with the old one), isLoading, error, isSaving, lastSaved,
\* retryCountRef, the timers, requests and file reads it left, and cause.
\*   - objects written in place are seen by whoever holds them;
\*   - the mount effect (deps [loadDataWithRetry], itself deps [error])
\*     runs again whenever error changed, and starts a load that captured
\*     the new error;
\*   - the auto-save effect calls debouncedSave;
\*   - KanbanBoard renders DataManager only past its two early returns
\*     (isLoading, error): DataManager and its hook are mounted when the
\*     board comes to show and unmounted when it stops to; a child's
\*     effects run before its parent's. DeveloperManagementModal is
\*     rendered past the same early returns and loses editingDeveloper
\*     with them. An instance that is unmounted with callbacks pending
\*     (leaves) lives on under a free name, its ref with it; one with
\*     nothing pending is gone, and the other unmounted instances keep
\*     theirs.
\* The update and the timers, requests, file reads and refs it leaves are
\* each worked out once (tsNow, ntNow, rdsNow, refNow).
Render(i, update) ==
    \E ch \in {update} :
    LET newState     == Opt(ch, "state", state[i])
        changed      == Opt(ch, "changed", FALSE)
        newIsLoading == Opt(ch, "isLoading", isLoading[i])
        newError     == Opt(ch, "error", error[i])
        cause        == Opt(ch, "cause", "none")
        keeps        == Opt(ch, "keeps", KeepsAll(state[i]))
        shows        == ~newIsLoading /\ newError = NoError
        page         == i = "board" /\ root = "KanbanBoard"
        mounts       == page /\ shows /\ ~mounted["dm"]
        unmounts     == page /\ ~shows /\ mounted["dm"]
        Cell(var, new, init) ==
            [j \in Inst |-> IF j = i THEN new
                            ELSE IF unmounts /\ j = "dm" THEN init
                            ELSE var[j]]
        leaves       == unmounts /\ HasCallback("dm", timers, net, readers)
        slot         == FreeSlot
        Held(seq) ==
            [k \in 1 .. Len(seq) |->
                IF unmounts
                THEN Detach(Rebind(seq[k], i, newState, keeps), slot)
                ELSE Rebind(seq[k], i, newState, keeps)]
        autoSave     == AutoSaveRuns(i, changed, newIsLoading)
        pending      == Opt(ch, "timers", timers)
        timers1      == Held(IF autoSave
                             THEN SelectSeq(pending,
                                      LAMBDA t : ~(t.inst = i
                                                   /\ t.kind = "debounce"))
                             ELSE pending)
        timers2      == IF mounts /\ AutoSaveRuns("dm", TRUE, TRUE)
                        THEN debounce(timers1, "dm", EmptyState, "mount")
                        ELSE timers1
        net1         == Held(Opt(ch, "net", net))
        readers1     == Opt(ch, "readers", readers)
        net2         == IF mounts
                        THEN Append(net1, Request("dm", "load", EmptyState, 0,
                                                  NoError, "mount"))
                        ELSE net1
        readers2     == [k \in 1 .. Len(readers1) |->
                            IF unmounts /\ readers1[k].inst = "dm"
                            THEN [readers1[k] EXCEPT !.inst = slot]
                            ELSE readers1[k]]
        timers3      == IF autoSave
                        THEN debounce(timers2, i, newState,
                                      IF changed THEN cause ELSE "stateKept")
                        ELSE timers2
        net3         == IF newError # error[i]
                        THEN Append(net2, Request(i, "load", EmptyState, 0,
                                                  newError, cause))
                        ELSE net2
        ref          == [o \in Owners |->
                            IF o = i
                            THEN Opt(ch, "retryCountRef", retryCountRef[i])
                            ELSE IF unmounts /\ o = "dm" THEN 0
                            ELSE IF leaves /\ o = slot
                            THEN retryCountRef["dm"]
                            ELSE retryCountRef[o]]
    IN  \E tsNow \in {timers3}, ntNow \in {net3}, rdsNow \in {readers2},
           refNow \in {ref} :
        /\ leaves => FreeSlots # {}
        /\ state' = Cell(state, newState, EmptyState)
        /\ isLoading' = Cell(isLoading, newIsLoading, TRUE)
        /\ error' = Cell(error, newError, NoError)
        /\ isSaving' = Cell(isSaving, Opt(ch, "isSaving", isSaving[i]), FALSE)
        /\ lastSaved' = Cell(lastSaved, Opt(ch, "lastSaved", lastSaved[i]),
                             Absent)
        /\ retryCountRef' = Collected(refNow, tsNow, ntNow, rdsNow)
        /\ editingDeveloper' =
              IF "editingDeveloper" \in DOMAIN ch THEN ch.editingDeveloper
              ELSE IF page /\ ~shows THEN NoEdit
              ELSE Rebind(editingDeveloper, i, newState, keeps)
        /\ mounted' = [mounted EXCEPT !["dm"] = (@ \/ mounts) /\ ~unmounts]
        /\ readers' = rdsNow
        /\ timers' = tsNow
        /\ net' = ntNow
        /\ sinceChange' = Cell(sinceChange,
                               IF changed THEN 0 ELSE sinceChange[i], 0)
        /\ errorsShown' = errorsShown \cup {newError}

\* A callback of an unmounted hook instance o: its setState calls do
\* nothing; its timeouts, its requests and what it writes to its
\* retryCountRef are as real as any.
RenderNothing(o, rc, newTimers, newNet, newReaders) ==
    /\ timers' = newTimers
    /\ net' = newNet
    /\ readers' = newReaders
    /\ retryCountRef' = Collected([retryCountRef EXCEPT ![o] = rc],
                                  newTimers, newNet, newReaders)
    /\ UNCHANGED << state, isLoading, error, isSaving, lastSaved,
                    editingDeveloper, mounted, sinceChange, errorsShown >>

\* KanbanBoard renders the board (and DataManager) only past its two early
\* returns: if (isLoading) ... and if (error) ...
Visible == mounted["board"] /\ ~isLoading["board"] /\ error["board"] = NoError

\* ------------------------------------------------------------------------
\* useTaskStorage: loading
\* ------------------------------------------------------------------------

\* finally { if (retryCount >= maxRetries || error === null) setIsLoading(false) }
\* where error is the value the callback captured when it was created.
LoadingAfter(i, req) ==
    IF req.retryCount >= maxRetries \/ req.captured = NoError
    THEN FALSE
    ELSE isLoading[i]

\* The continuation of loadDataWithRetry once loadData has settled:
\* loadData's fetch was answered with what the handler read when it ran,
\* or failed.
LoadResponse(i, k, outcome) ==
    /\ ~TimerReady
    /\ k \in 1 .. Len(net)
    /\ net[k].inst = i
    /\ net[k].op = "load"
    /\ LoadSettles(k, outcome)
    /\ LET req == net[k]
           r   == apiLoadData(outcome, req.doc)
       IN  /\ IF i \in DetachedInsts
              THEN RenderNothing(i, retryCountRef[i], timers,
                                 RemoveAt(net, k), readers)
              ELSE IF ~r.threw
              THEN Render(i, [state |-> r.value, changed |-> TRUE,
                              keeps |-> KeepsNone(state[i]),
                              isLoading |-> LoadingAfter(i, req),
                              error |-> NoError, net |-> RemoveAt(net, k),
                              cause |-> IF outcome = "ok" THEN "loadDone"
                                        ELSE "loadFellBack"])
              ELSE IF req.retryCount < maxRetries
              THEN Render(i, [isLoading |-> LoadingAfter(i, req),
                              timers |->
                                 Append(timers,
                                        Timer(i, "loadRetry", req.data,
                                              RetryDelay(req.retryCount + 1),
                                              req.retryCount + 1, req.captured,
                                              req.cause)),
                              net |-> RemoveAt(net, k),
                              cause |-> "loadFailed"])
              ELSE Render(i, [state |-> EmptyState, changed |-> TRUE,
                              keeps |-> KeepsNone(state[i]),
                              isLoading |-> LoadingAfter(i, req),
                              error |-> FailedLoad, net |-> RemoveAt(net, k),
                              cause |-> "loadFailed"])
           /\ sentIds' = IF r.threw \/ i # "board" THEN sentIds ELSE {}
           /\ last' = Step("loadDone", i, outcome = "ok", req.retryCount,
                           req.cause)
    /\ UNCHANGED << stored, root, presses, nextId, anySaveOk, ls, gw >>

\* reloadData: setIsLoading(true); setError(null); await loadDataWithRetry()
\* with the loadDataWithRetry (and the error it captured) of the render
\* the caller took reloadData from.
reloadData(i, captured, cause, data, netBase) ==
    IF i \in DetachedInsts
    THEN RenderNothing(i, retryCountRef[i], timers,
                       Append(netBase, Request(i, "load", data, 0, captured,
                                               cause)),
                       readers)
    ELSE Render(i, [isLoading |-> TRUE, error |-> NoError,
                    net |-> Append(netBase, Request(i, "load", data, 0,
                                                    captured, cause)),
                    cause |-> "reload"])

\* The Reload button of KanbanBoard, onClick={reloadData}: the reloadData
\* of the render on screen.
ReloadData ==
    /\ ~TimerReady
    /\ Visible
    /\ Press("reload")
    /\ Len(net) < MaxInFlight
    /\ reloadData("board", error["board"], "reload", EmptyState, net)
    /\ last' = Step("reload", "board", TRUE, 0, "none")
    /\ UNCHANGED << stored, root, faults, nextId, sentIds, anySaveOk,
                    ls, gw >>

\* A caller of the hook calls a reloadData it took from the hook's result
\* in the current render or in an earlier one: captured is the error of
\* that render.
CallReloadData(captured) ==
    /\ ~TimerReady
    /\ mounted["board"]
    /\ captured \in errorsShown
    /\ Press("reload")
    /\ Len(net) < MaxInFlight
    /\ reloadData("board", captured, "reload", EmptyState, net)
    /\ last' = Step("reload", "board", captured = error["board"], 0, captured)
    /\ UNCHANGED << stored, root, faults, nextId, sentIds, anySaveOk,
                    ls, gw >>

\* clearError: setError(null). With error null already nothing renders.
CallClearError ==
    /\ ~TimerReady
    /\ mounted["board"]
    /\ Press("tryAgain")
    /\ error["board"] # NoError
    /\ Len(net) < MaxInFlight
    /\ Render("board", [error |-> NoError, cause |-> "clearError"])
    /\ last' = Step("clearError", "board", TRUE, 0, "none")
    /\ UNCHANGED << stored, root, faults, nextId, sentIds, anySaveOk,
                    ls, gw >>

\* The "Try Again" button of KanbanBoard's error screen, onClick={clearError}:
\* the screen shows once isLoading is false.
ClearError == ~isLoading["board"] /\ CallClearError

\* ------------------------------------------------------------------------
\* useTaskStorage: saving
\* ------------------------------------------------------------------------

\* The first pending timeout that is due, in creation order.
DueTimer ==
    CHOOSE k \in 1 .. Len(timers) :
        /\ timers[k].remaining = 0
        /\ \A j \in 1 .. (k - 1) : timers[j].remaining # 0

\* A setTimeout callback runs.
\*   debounce:  saveFunction(data) up to its await saveData(data)
\*   saveRetry: the retry callback up to its await saveData(data)
\*   loadRetry: loadDataWithRetry(retryCount + 1) up to its await loadData()
\* saveData stringifies data as it is when the callback runs; the closure
\* of saveFunction goes on holding data for its retry.
TimerFire ==
    /\ TimerReady
    /\ LET t == timers[DueTimer]
           i == t.inst
           rest == RemoveAt(timers, DueTimer)
           sent == CASE t.kind = "debounce" ->
                            Holding(Request(i, "save", t.data, t.retryCount,
                                            NoError, t.cause), t.live)
                     [] t.kind = "saveRetry" ->
                            Request(i, "retrySave", t.data, t.retryCount,
                                    NoError, t.cause)
                     [] OTHER ->
                            Request(i, "load", t.data, t.retryCount,
                                    t.captured, t.cause)
       IN  /\ IF i \in DetachedInsts
              THEN RenderNothing(i, retryCountRef[i], rest, Append(net, sent),
                                 readers)
              ELSE IF t.kind = "debounce"
              THEN Render(i, [isSaving |-> TRUE, error |-> NoError,
                              timers |-> rest, net |-> Append(net, sent),
                              cause |-> "saveStart"])
              ELSE Render(i, [timers |-> rest, net |-> Append(net, sent)])
           /\ sentIds' = IF t.kind \in {"debounce", "saveRetry"} /\ i = "board"
                         THEN sentIds \cup TaskIdsOf(t.data)
                         ELSE sentIds
           /\ last' = Step(t.kind, i, TRUE, 0, "none")
    /\ UNCHANGED << stored, root, faults, presses, nextId, anySaveOk,
                    ls, gw >>

\* forceSave up to its await saveData(state), called in the current
\* render: setIsSaving(true), then the POST of state.
CallForceSave ==
    /\ ~TimerReady
    /\ mounted["board"]
    /\ Press("save")
    /\ Len(net) < MaxInFlight
    /\ Render("board",
              [isSaving |-> TRUE,
               net |-> Append(net, Request("board", "forceSave",
                                           state["board"], 0, NoError,
                                           "none"))])
    /\ sentIds' = sentIds \cup TaskIdsOf(state["board"])
    /\ last' = Step("forceSave", "board", TRUE, 0, "none")
    /\ UNCHANGED << stored, root, faults, nextId, anySaveOk, ls, gw >>

\* The Save button of KanbanBoard, onClick={forceSave}: on the board, and
\* disabled while isSaving.
ForceSave == Visible /\ ~isSaving["board"] /\ CallForceSave

\* The POST of a save settles and the code after await saveData(...) runs.
\* What the store holds was decided when the handler ran.
SaveResponse(i, k, ok) ==
    /\ ~TimerReady
    /\ k \in 1 .. Len(net)
    /\ net[k].inst = i
    /\ net[k].op \in SaveOps
    /\ SaveSettles(k, ok)
    /\ LET req  == net[k]
           rest == RemoveAt(net, k)
           rc   == retryCountRef[i]
           retry == Holding(Timer(i, "saveRetry", req.data, RetryDelay(rc + 1),
                                  0, NoError, req.cause), req.live)
           saved == IF ok THEN Some(TheDate) ELSE lastSaved[i]
       IN  /\ CASE i \in DetachedInsts ->
                    RenderNothing(i,
                                  IF ok THEN 0
                                  ELSE IF req.op = "save" THEN rc + 1 ELSE rc,
                                  IF req.op = "save" /\ ~ok
                                     /\ rc + 1 <= maxRetries
                                  THEN Append(timers, retry) ELSE timers,
                                  rest, readers)
                [] i \in Inst /\ req.op = "save" ->
                    IF ok
                    THEN Render(i, [isSaving |-> FALSE, lastSaved |-> saved,
                                    retryCountRef |-> 0, net |-> rest])
                    ELSE IF rc + 1 <= maxRetries
                    THEN Render(i, [isSaving |-> FALSE,
                                    retryCountRef |-> rc + 1,
                                    timers |-> Append(timers, retry),
                                    net |-> rest])
                    ELSE Render(i, [isSaving |-> FALSE,
                                    retryCountRef |-> rc + 1,
                                    error |-> FailedSave, net |-> rest,
                                    cause |-> "saveFailed"])
                [] i \in Inst /\ req.op = "retrySave" ->
                    Render(i, [lastSaved |-> saved,
                               retryCountRef |-> IF ok THEN 0 ELSE rc,
                               error |-> IF ~ok /\ rc >= maxRetries
                                         THEN FailedSave ELSE error[i],
                               net |-> rest, cause |-> "saveFailed"])
                [] OTHER ->
                    Render(i, [isSaving |-> FALSE, lastSaved |-> saved,
                               error |-> IF ok THEN error[i] ELSE FailedManual,
                               net |-> rest, cause |-> "forceSaveFailed"])
           /\ anySaveOk' = (anySaveOk \/ (ok /\ i = "board"))
           /\ last' = Step("saveDone", i, ok, 0, req.op)
    /\ UNCHANGED << stored, root, presses, nextId, sentIds, ls, gw >>

\* Time passes: 500 ms, while no timeout is due.
Tick ==
    /\ timers # << >>
    /\ Len(net) < MaxInFlight
    /\ \A k \in 1 .. Len(timers) : timers[k].remaining > 0
    /\ timers' = [k \in 1 .. Len(timers) |->
                    [timers[k] EXCEPT !.remaining = @ - 1]]
    /\ sinceChange' = [i \in Inst |->
                          IF sinceChange[i] < DebounceDelay
                          THEN sinceChange[i] + 1 ELSE sinceChange[i]]
    /\ last' = Step("tick", "board", TRUE, 0, "none")
    /\ UNCHANGED << state, isLoading, error, isSaving, lastSaved,
                    retryCountRef, editingDeveloper, mounted, net, readers, stored, root, faults,
                    presses, nextId, sentIds, anySaveOk, errorsShown, ls,
                    gw >>

\* ------------------------------------------------------------------------
\* KanbanBoard: the handlers that mutate the board
\* ------------------------------------------------------------------------

NewTask(id, points) ==
    [id |-> id, points |-> points, status |-> "backlog", assignedTo |-> NoDev,
     completedAt |-> Absent, completionDetails |-> Absent]


\* A state update of the board instance by one of the hook's mutation
\* functions, and the render that follows.
Mutate(kind, ch, n, cause) ==
    /\ Render("board", ch)
    /\ last' = Step(kind, "board", TRUE, n, cause)
    /\ UNCHANGED << stored, root, faults, sentIds, anySaveOk, ls, gw >>

\* addTask of the hook called with a new backlog task under a fresh id,
\* as long as fewer than max tasks were created.
CallAddTaskWithin(points, max) ==
    /\ ~TimerReady
    /\ mounted["board"]
    /\ nextId < max
    /\ nextId' = nextId + 1
    /\ Mutate("createTask",
              [state |-> addTask(state["board"], NewTask(nextId + 1, points)),
               changed |-> TRUE],
              nextId + 1, "none")

CallAddTask(points) == CallAddTaskWithin(points, MaxCreates)

\* handleCreateTask of KanbanBoard: addTask with a task under a fresh
\* generateId('task-'), from the form of the board.
CreateTaskWithin(points, max) == Visible /\ CallAddTaskWithin(points, max)

HandleCreateTask(points) == CreateTaskWithin(points, MaxCreates)


\* ------------------------------------------------------------------------
\* The hook's mutation functions, called with any argument
\* ------------------------------------------------------------------------

ZeroStats == [totalPoints |-> 0, completedTasks |-> 0, totalHours |-> 0]

\* The statistics the developer-management tests hand to addDeveloper.
StaleStats == [totalPoints |-> 25, completedTasks |-> 1, totalHours |-> 8]

Developer(id, name, stats) ==
    [id |-> id, name |-> name, totalPoints |-> stats.totalPoints,
     completedTasks |-> stats.completedTasks, totalHours |-> stats.totalHours]

DeveloperNames == {<< "alice", "", 0 >>, << "developer", "dev", 0 >>}

\* The developers handed to addDeveloper and updateDeveloper.
DeveloperInputs ==
    {Developer(id, << "alice", "", 0 >>, stats) :
        id \in DevIds, stats \in {ZeroStats, StaleStats}}

TaskInputs ==
    {NewTask(id, p) : id \in TaskIds, p \in PointValues}
    \cup {[NewTask(id, p) EXCEPT !.status = "assigned", !.assignedTo = d] :
            id \in TaskIds, p \in PointValues, d \in DevIds}
    \cup {[NewTask(id, p) EXCEPT !.status = "completed", !.assignedTo = d,
                                 !.completedAt = Some(DateOf(1)),
                                 !.completionDetails = Some(h)] :
            id \in TaskIds, p \in PointValues, d \in DevIds, h \in HourValues}

\* handleTaskDrop on the backlog column
BacklogPatch == [status |-> "backlog", assignedTo |-> NoDev]

\* handleTaskDrop on a developer column
AssignPatch(d) == [status |-> "assigned", assignedTo |-> d]

\* handleTaskCompletionSubmit
CompletePatch(h) ==
    [status |-> "completed", completedAt |-> Some(DateOf(1)),
     completionDetails |-> Some(h)]

TaskPatches ==
    {BacklogPatch}
    \cup {AssignPatch(d) : d \in DevIds}
    \cup {CompletePatch(h) : h \in HourValues}

\* How many tasks the board specification creates.
MaxBoardCreates == 2

\* allDevelopers: the developers of the state or, while there is none, the
\* demo developers dev-1 .. dev-4, of which the model keeps those of
\* DevIds.
ColumnIds(s) ==
    IF s.developers # << >>
    THEN {s.developers[k].id : k \in 1 .. Len(s.developers)}
    ELSE DevIds

HasTask(s, taskId) == \E k \in 1 .. Len(s.tasks) : s.tasks[k].id = taskId

\* tasks.find(t => t.id === taskId), for an id some task has.
FindTask(s, taskId) ==
    s.tasks[CHOOSE k \in 1 .. Len(s.tasks) :
                /\ s.tasks[k].id = taskId
                /\ \A j \in 1 .. (k - 1) : s.tasks[j].id # taskId]

\* handleTaskDrop: the task goes back to the backlog or to the developer
\* of the column; nothing happens when the task is not found.
HandleTaskDrop(taskId, targetColumn) ==
    /\ ~TimerReady
    /\ Visible
    /\ HasTask(state["board"], taskId)
    /\ targetColumn \in {"backlog"} \cup ColumnIds(state["board"])
    /\ UNCHANGED nextId
    /\ Mutate("taskDrop",
              [state |-> updateTask(state["board"], taskId,
                                    IF targetColumn = "backlog"
                                    THEN BacklogPatch
                                    ELSE AssignPatch(targetColumn)),
               changed |-> TRUE,
               keeps |-> updateTaskKeeps(state["board"], taskId)],
              taskId, targetColumn)

\* handleTaskCompletionSubmit without the test of task.assignedTo.
HandleTaskCompletionSubmit_NoAssigneeCheck(taskId, hoursSpent) ==
    /\ ~TimerReady
    /\ Visible
    /\ HasTask(state["board"], taskId)
    /\ UNCHANGED nextId
    /\ Mutate("taskCompletion",
              [state |-> updateTask(state["board"], taskId,
                                    CompletePatch(hoursSpent)),
               changed |-> TRUE,
               keeps |-> updateTaskKeeps(state["board"], taskId)],
              taskId, "none")

\* handleTaskCompletionSubmit: refused when the task is not found or has
\* no assignedTo.
HandleTaskCompletionSubmit(taskId, hoursSpent) ==
    /\ ~TimerReady
    /\ Visible
    /\ HasTask(state["board"], taskId)
    /\ FindTask(state["board"], taskId).assignedTo # NoDev
    /\ UNCHANGED nextId
    /\ Mutate("taskCompletion",
              [state |-> updateTask(state["board"], taskId,
                                    CompletePatch(hoursSpent)),
               changed |-> TRUE,
               keeps |-> updateTaskKeeps(state["board"], taskId)],
              taskId, "none")

\* The step records how many developer records the call added and whether
\* the task named a developer the board did not have.
AddTask(task) ==
    /\ Len(state["board"].tasks) < MaxTasks
    /\ UNCHANGED nextId
    /\ Mutate("addTask",
              [state |-> addTask(state["board"], task), changed |-> TRUE],
              Len(addTask(state["board"], task).developers)
                  - Len(state["board"].developers),
              IF /\ task.assignedTo # NoDev
                 /\ ~HasDeveloper(state["board"].developers, task.assignedTo)
              THEN "unknownDeveloper" ELSE "none")

\* The step records whether some task had the id and the status of the
\* patch.
UpdateTask(taskId, updates) ==
    /\ UNCHANGED nextId
    /\ Mutate("updateTask",
              [state |-> updateTask(state["board"], taskId, updates),
               changed |-> TRUE,
               keeps |-> updateTaskKeeps(state["board"], taskId)],
              IF \E k \in 1 .. Len(state["board"].tasks) :
                    state["board"].tasks[k].id = taskId
              THEN taskId ELSE 0,
              updates.status)

DeleteTask(taskId) ==
    /\ UNCHANGED nextId
    /\ Mutate("deleteTask",
              [state |-> deleteTask(state["board"], taskId), changed |-> TRUE,
               keeps |-> deleteTaskKeeps(state["board"], taskId)],
              0, "none")

\* addDeveloper returns prevState itself when the id exists.
AddDeveloper(developer) ==
    /\ UNCHANGED nextId
    /\ Mutate("addDeveloper",
              [state |-> addDeveloper(state["board"], developer),
               changed |->
                  ~HasDeveloper(state["board"].developers, developer.id)],
              0,
              IF HasDeveloper(state["board"].developers, developer.id)
              THEN "duplicate" ELSE "none")

UpdateDeveloper(developer) ==
    /\ UNCHANGED nextId
    /\ Mutate("updateDeveloper",
              [state |-> updateDeveloper(state["board"], developer),
               changed |-> TRUE,
               keeps |-> updateDeveloperKeeps(state["board"], developer)],
              0, "none")

DeleteDeveloper(developerId) ==
    /\ UNCHANGED nextId
    /\ Mutate("deleteDeveloper",
              [state |-> deleteDeveloper(state["board"], developerId),
               changed |-> TRUE,
               keeps |-> deleteDeveloperKeeps(state["board"], developerId)],
              reassignedCount(state["board"], developerId), developerId)

\* ------------------------------------------------------------------------
\* DeveloperManagementModal: the board's developer list
\* ------------------------------------------------------------------------

\* validateForm: the name is not that of another developer.
NameIsFree(s, name, exceptId) ==
    \A k \in 1 .. Len(s.developers) :
        s.developers[k].name = name => s.developers[k].id = exceptId

\* The developer ids a document carries.
DevIdsOf(s) ==
    {s.developers[k].id : k \in 1 .. Len(s.developers)}
    \cup {s.tasks[k].assignedTo : k \in 1 .. Len(s.tasks)}

\* The developer ids some object of the program or the store carries.
UsedDevIds ==
    UNION ({DevIdsOf(state[i]) : i \in Inst}
           \cup {DevIdsOf(stored), DevIdsOf(editingDeveloper.data)}
           \cup {DevIdsOf(timers[k].data) : k \in 1 .. Len(timers)}
           \cup {DevIdsOf(net[k].data) : k \in 1 .. Len(net)}
           \cup {DevIdsOf(net[k].body) : k \in 1 .. Len(net)}
           \cup {DevIdsOf(net[k].doc) : k \in 1 .. Len(net)})

\* What generateId('dev-') returns: an id that exists nowhere yet, the
\* first of GeneratedIds that is unused.
FreshDevIds ==
    IF "dev-g1" \notin UsedDevIds THEN {"dev-g1"}
    ELSE IF "dev-g2" \notin UsedDevIds THEN {"dev-g2"}
    ELSE {}

\* handleEditDeveloper: the modal takes the developer object of the list
\* it was clicked on.
HandleEditDeveloper(developerId) ==
    /\ ~TimerReady
    /\ Visible
    /\ HasDeveloper(state["board"].developers, developerId)
    /\ editingDeveloper' =
          Editing(state["board"].developers[
                      FindIndex(state["board"].developers, developerId)],
                  FindIndex(state["board"].developers, developerId))
    /\ last' = Step("editDeveloper", "board", TRUE, 0, developerId)
    /\ UNCHANGED << state, isLoading, error, isSaving, lastSaved,
                    retryCountRef, mounted, sinceChange, errorsShown,
                    timers, net, readers, stored, root, faults, nextId,
                    sentIds, anySaveOk, ls, gw >>

\* handleCancelEdit, or the modal is closed: setEditingDeveloper(null).
HandleCancelEdit ==
    /\ ~TimerReady
    /\ Visible
    /\ editingDeveloper # NoEdit
    /\ editingDeveloper' = NoEdit
    /\ last' = Step("cancelEdit", "board", TRUE, 0, "none")
    /\ UNCHANGED << state, isLoading, error, isSaving, lastSaved,
                    retryCountRef, mounted, sinceChange, errorsShown,
                    timers, net, readers, stored, root, faults, presses,
                    nextId, sentIds, anySaveOk, ls, gw >>

\* handleSubmit with no developer being edited: a new developer without
\* statistics under the id generateId('dev-') made.
HandleAddDeveloper(id, name) ==
    /\ ~TimerReady
    /\ Visible
    /\ editingDeveloper = NoEdit
    /\ NameIsFree(state["board"], name, NoDev)
    /\ id \in FreshDevIds
    /\ AddDeveloper(Developer(id, name, ZeroStats))

\* handleSubmit while a developer is edited: onUpdateDeveloper of
\* { ...editingDeveloper, name }, the object as the modal holds it, then
\* setEditingDeveloper(null).
HandleUpdateDeveloper(name) ==
    /\ ~TimerReady
    /\ Visible
    /\ editingDeveloper # NoEdit
    /\ NameIsFree(state["board"], name, editingDeveloper.data.developers[1].id)
    /\ UNCHANGED nextId
    /\ LET developer ==
               [editingDeveloper.data.developers[1] EXCEPT !.name = name]
       IN  Mutate("updateDeveloper",
                  [state |-> updateDeveloper(state["board"], developer),
                   changed |-> TRUE,
                   keeps |-> updateDeveloperKeeps(state["board"], developer),
                   editingDeveloper |-> NoEdit],
                  0, "none")

\* handleDeleteDeveloper, confirmed, on a developer of the list.
HandleDeleteDeveloper(developerId) ==
    /\ ~TimerReady
    /\ Visible
    /\ HasDeveloper(state["board"].developers, developerId)
    /\ DeleteDeveloper(developerId)

\* The positions of the tasks the sweep finds orphaned.
OrphanedTasks(s) == {k \in 1 .. Len(s.tasks) : IsOrphaned(s, s.tasks[k])}

\* One run of the 30 s interval of a mounted hook:
\* setState(validateAndCleanup), which writes into the task objects of
\* prevState and returns prevState itself when nothing is orphaned.
Sweep(i) ==
    /\ mounted[i]
    /\ Render(i, [state |-> validateAndCleanup(state[i]),
                  changed |-> validateAndCleanup(state[i]) # state[i]])
    /\ last' = Step("sweep", i, TRUE, Cardinality(OrphanedTasks(state[i])),
                    "none")
    /\ UNCHANGED << stored, root, faults, nextId, sentIds, anySaveOk,
                    ls, gw >>

\* ------------------------------------------------------------------------
\* storage.ts: the localStorage gateway
\* ------------------------------------------------------------------------

\* One entry of a stored tasks array, as far as the gateway looks at it:
\* name may be the empty string, points may be a JSON string, status may be
\* a word outside the three, completedAt is absent or an ISO string.
LsTask(name, pointsType, status, completedAt) ==
    [id |-> "task-1", name |-> name, pointsType |-> pointsType,
     status |-> status, completedAt |-> completedAt]

LsDeveloper(name, pointsType) ==
    [id |-> "dev-1", name |-> name, totalPointsType |-> pointsType]

GoodLsTask == LsTask("Fix login", "number", "completed", StringifyDate(Some(DateOf(1))))

LsTaskItems ==
    {<< >>,
     << GoodLsTask >>,
     << LsTask("", "number", "backlog", Absent) >>,
     << LsTask("Fix login", "string", "backlog", Absent) >>,
     << GoodLsTask, LsTask("Fix login", "number", "archived", Absent) >>}

LsDeveloperItems == {<< >>, << LsDeveloper("Alice", "number") >>}

\* A JSON array, or something that is not one (the key is missing).
JsonArray(items) == [isArray |-> TRUE, items |-> items]

NotAnArray == [isArray |-> FALSE, items |-> << >>]

LsDocs ==
    {[tasks |-> t, developers |-> d] :
        t \in {JsonArray(i) : i \in LsTaskItems} \cup {NotAnArray},
        d \in {JsonArray(i) : i \in LsDeveloperItems} \cup {NotAnArray}}

EmptyDoc == [tasks |-> JsonArray(<< >>), developers |-> JsonArray(<< >>)]

\* What getItem(STORAGE_KEY) can hold: nothing, text that is not JSON, the
\* JSON texts null and 5, or the JSON text of an object.
Raw(kind, doc) == [kind |-> kind, doc |-> doc]

RawValues ==
    {Raw(k, EmptyDoc) : k \in {"absent", "garbage", "null", "number"}}
    \cup {Raw("object", d) : d \in LsDocs}

\* The task loop of validateStorageData.
ValidTask(t) ==
    /\ t.id # ""
    /\ t.name # ""
    /\ t.pointsType = "number"
    /\ t.status \in TaskStatus

ValidDeveloper(d) ==
    /\ d.id # ""
    /\ d.name # ""
    /\ d.totalPointsType = "number"

validateStorageData(doc) ==
    /\ doc.tasks.isArray
    /\ doc.developers.isArray
    /\ \A k \in 1 .. Len(doc.tasks.items) : ValidTask(doc.tasks.items[k])
    /\ \A k \in 1 .. Len(doc.developers.items) :
          ValidDeveloper(doc.developers.items[k])

\* The filters of recoverPartialData test typeof, so an empty name passes.
RecoverableTask(t) == t.pointsType = "number" /\ t.status \in TaskStatus

RecoverableDeveloper(d) == d.totalPointsType = "number"

\* recoverPartialData: Some(recovered), or Absent for null.
recoverPartialData(doc) ==
    LET tasks == IF doc.tasks.isArray
                 THEN SelectSeq(doc.tasks.items, RecoverableTask)
                 ELSE << >>
        developers == IF doc.developers.isArray
                      THEN SelectSeq(doc.developers.items, RecoverableDeveloper)
                      ELSE << >>
    IN  IF tasks # << >> \/ developers # << >>
        THEN Some([tasks |-> tasks, developers |-> developers])
        ELSE Absent

lsDeserializeDates(doc) ==
    [tasks      |-> [k \in 1 .. Len(doc.tasks.items) |->
                        [f \in DOMAIN doc.tasks.items[k] |->
                            IF f \in DateFields
                            THEN ReviveDate(doc.tasks.items[k][f])
                            ELSE doc.tasks.items[k][f]]],
     developers |-> doc.developers.items]

\* backupCorruptedData: setItem under a fresh key; a throw is swallowed.
backupCorruptedData(store, raw) ==
    IF store.setItemThrows
    THEN store
    ELSE [store EXCEPT !.backups = @ \cup {raw}]

LsResult(threw, value, store) ==
    [threw |-> threw, value |-> value, store |-> store]

\* The try block of loadData. JSON.parse throws on text that is not JSON;
\* migrateData throws on null (a property read) and on a number (a
\* property write on a primitive, in strict mode).
lsLoadBody(store) ==
    LET raw == store.main
    IN  IF store.getItemThrows THEN LsResult(TRUE, EmptyState, store)
        ELSE IF raw.kind = "absent" THEN LsResult(FALSE, EmptyState, store)
        ELSE IF raw.kind # "object" THEN LsResult(TRUE, EmptyState, store)
        ELSE IF validateStorageData(raw.doc)
        THEN LsResult(FALSE, lsDeserializeDates(raw.doc), store)
        ELSE IF recoverPartialData(raw.doc) # Absent
        THEN LsResult(FALSE, recoverPartialData(raw.doc)[1], store)
        ELSE LsResult(FALSE, EmptyState, backupCorruptedData(store, raw))

\* loadData of storage.ts: the catch backs the stored text up, if it can
\* still be read, and returns DEFAULT_STATE.
lsLoadData(store) ==
    LET body == lsLoadBody(store)
    IN  IF ~body.threw THEN body
        ELSE IF store.getItemThrows
        THEN LsResult(FALSE, EmptyState, store)
        ELSE LsResult(FALSE, EmptyState, backupCorruptedData(store, store.main))

\* localStorage before anything was stored.
LsEmpty ==
    [main |-> Raw("absent", EmptyDoc), backupLast |-> Raw("absent", EmptyDoc),
     backups |-> {}, getItemThrows |-> FALSE, setItemThrows |-> FALSE]

\* The record of one gateway call: which gateway, on what, and how it ended.
Call(name, input, threw, value) ==
    [call |-> name, input |-> input, threw |-> threw, value |-> value]

NoCall == Call("none", "none", FALSE, EmptyState)

\* The last call of each gateway.
NoCalls == [api |-> NoCall, ls |-> NoCall]

\* How many corrupted values are backed up in one run.
MaxBackups == 1

\* Another session, or an older version, left this text under the key.
StoreRaw(raw) ==
    /\ ls.main # raw
    /\ ls' = [ls EXCEPT !.main = raw]
    /\ UNCHANGED << hookVars, ghostVars, gw, stored, readers, root, faults, presses,
                    nextId >>

\* The browser starts or stops refusing getItem (storage disabled) or
\* setItem (quota).
StorageFault(getItemThrows, setItemThrows) ==
    /\ << getItemThrows, setItemThrows >> # << ls.getItemThrows, ls.setItemThrows >>
    /\ ls' = [ls EXCEPT !.getItemThrows = getItemThrows,
                        !.setItemThrows = setItemThrows]
    /\ UNCHANGED << hookVars, ghostVars, gw, stored, readers, root, faults, presses,
                    nextId >>

LsInput(store) ==
    IF store.getItemThrows THEN "getItemThrows" ELSE store.main.kind

\* A caller runs storage.ts loadData().
LsLoadData ==
    /\ Cardinality(lsLoadData(ls).store.backups) <= MaxBackups
    /\ ls' = lsLoadData(ls).store
    /\ gw' = [gw EXCEPT !.ls = Call("lsLoad", LsInput(ls),
                                    lsLoadData(ls).threw,
                                    lsLoadData(ls).value)]
    /\ UNCHANGED << hookVars, ghostVars, stored, readers, root, faults, presses, nextId >>

\* The states saveData is called with: the documents above as objects in
\* memory, every completedAt a Date.
SaveInputs ==
    {[tasks |-> [d.tasks EXCEPT !.items =
                    [k \in 1 .. Len(d.tasks.items) |->
                        [d.tasks.items[k] EXCEPT !.completedAt = ReviveDate(@)]]],
      developers |-> d.developers] : d \in LsDocs}

\* JSON.stringify(storageData, null, 2): every Date becomes its ISO string.
lsStringify(storageData) ==
    Raw("object",
        [tasks |-> [storageData.tasks EXCEPT !.items =
                       [k \in 1 .. Len(storageData.tasks.items) |->
                           [storageData.tasks.items[k] EXCEPT
                               !.completedAt = StringifyDate(@)]]],
         developers |-> storageData.developers])

\* The catch of saveData: the text under the -backup-last key, if there is
\* one, is written back under the main key; a throw in there is swallowed.
RestoreFromBackup(store) ==
    IF store.getItemThrows \/ store.backupLast.kind = "absent" \/ store.setItemThrows
    THEN store
    ELSE [store EXCEPT !.main = store.backupLast]

\* saveData of storage.ts: validate, serialize, copy the current text to
\* -backup-last (a throw of that setItem is swallowed), write the main key;
\* any throw on the way leads to the catch and to return false.
lsSaveData(store, appState) ==
    LET backedUp == IF store.main.kind \notin {"absent", "null"}
                       /\ ~store.setItemThrows
                    THEN [store EXCEPT !.backupLast = store.main]
                    ELSE store
    IN  IF ~validateStorageData(appState)
        THEN [ok |-> FALSE, store |-> RestoreFromBackup(store)]
        ELSE IF store.getItemThrows
        THEN [ok |-> FALSE, store |-> RestoreFromBackup(store)]
        ELSE IF store.setItemThrows
        THEN [ok |-> FALSE, store |-> RestoreFromBackup(backedUp)]
        ELSE [ok |-> TRUE, store |-> [backedUp EXCEPT !.main = lsStringify(appState)]]

\* A caller runs storage.ts saveData(state). The step records what
\* saveData returned and whether the state was one it accepts.
LsSaveData(s) ==
    /\ ls' = lsSaveData(ls, s).store
    /\ last' = Step("lsSave", "board", lsSaveData(ls, s).ok, 0,
                    IF validateStorageData(s) THEN "valid" ELSE "invalid")
    /\ UNCHANGED << hookVars, sinceChange, sentIds, anySaveOk, errorsShown,
                    gw, stored, readers, root, faults, presses, nextId >>

\* ------------------------------------------------------------------------
\* apiStorage.ts called on its own
\* ------------------------------------------------------------------------

\* Whoever calls the gateway without a hook: a test, a script.
Caller == "caller"

\* A caller runs apiStorage.ts loadData() up to its await fetch(GET); it
\* awaits one load before it starts the next.
ApiLoadData ==
    /\ \A k \in 1 .. Len(net) : net[k].op # "apiLoad"
    /\ net' = Append(net, Request(Caller, "apiLoad", EmptyState, 0, NoError,
                                  "none"))
    /\ UNCHANGED << renderVars, timers, readers, stored, root, faults, presses,
                    nextId, sentIds, anySaveOk, last, ls, gw >>

\* The fetch of loadData settles, with what the handler read when it ran
\* or with a failure, and loadData returns.
ApiLoadDataReturns(k, outcome) ==
    /\ k \in 1 .. Len(net)
    /\ net[k].op = "apiLoad"
    /\ LoadSettles(k, outcome)
    /\ net' = RemoveAt(net, k)
    /\ gw' = [gw EXCEPT !.api = Call("apiLoad", outcome,
                                     apiLoadData(outcome, net[k].doc).threw,
                                     apiLoadData(outcome, net[k].doc).value)]
    /\ UNCHANGED << renderVars, timers, readers, stored, root, presses, nextId,
                    sentIds, anySaveOk, last, ls >>

\* A caller runs apiStorage.ts clearData() up to its await fetch(DELETE).
ApiClearData ==
    /\ ~TimerReady
    /\ Press("clear")
    /\ Len(net) < MaxInFlight
    /\ net' = Append(net, Request(Caller, "clear", EmptyState, 0, NoError,
                                  "none"))
    /\ last' = Step("clear", Caller, TRUE, 0, "none")
    /\ UNCHANGED << renderVars, timers, readers, stored, root, faults, nextId,
                    sentIds, anySaveOk, ls, gw >>

\* The fetch of clearData settles and clearData returns result.success,
\* or false from its catch.
ApiClearDataReturns(k, ok) ==
    /\ ~TimerReady
    /\ k \in 1 .. Len(net)
    /\ net[k].op = "clear"
    /\ SaveSettles(k, ok)
    /\ net' = RemoveAt(net, k)
    /\ last' = Step("cleared", Caller, ok, 0, "none")
    /\ UNCHANGED << renderVars, timers, readers, stored, root, presses, nextId,
                    sentIds, anySaveOk, ls, gw >>

\* ------------------------------------------------------------------------
\* apiStorage.ts export / import, and DataManager
\* ------------------------------------------------------------------------

\* ------------------------------------------------------------------------

\* The text of a file: not JSON, or the JSON text of an object that may
\* lack the two arrays.
ImportFile(kind, arrays, doc) == [kind |-> kind, arrays |-> arrays, doc |-> doc]

\* exportData: JSON.stringify({tasks, developers, version}).
exportData(s) == ImportFile("object", TRUE, Stringify(s))

\* validateStorageData of apiStorage.ts: an object with the two arrays.
apiValidateStorageData(file) == file.kind = "object" /\ file.arrays

\* A plausible slip: the parsed file is used without validateStorageData.
importData_NoValidation(file) == Returned(deserializeDates(file.doc))

\* importData: parse, validate, deserialize; any failure is rethrown.
importData(file) ==
    IF apiValidateStorageData(file)
    THEN Returned(deserializeDates(file.doc))
    ELSE Thrown

\* The board a colleague exported.
ImportDoc ==
    [tasks |-> << [NewTask(9, 15) EXCEPT !.status = "completed",
                                         !.assignedTo = "dev-2",
                                         !.completedAt = Some(DateOf(2)),
                                         !.completionDetails = Some(8)] >>,
     developers |-> << Developer("dev-2", << "alice", "", 0 >>,
                                 [totalPoints |-> 15, completedTasks |-> 1,
                                  totalHours |-> 8]) >>]

ImportFiles ==
    {exportData(ImportDoc),
     ImportFile("garbage", FALSE, EmptyState),
     ImportFile("object", FALSE, EmptyState)}


\* importing of DataManager: set by handleImport, reset by the finally of
\* reader.onload, which comes after the awaited reloadData.
Importing ==
    \/ \E j \in 1 .. Len(readers) : readers[j].inst = "dm"
    \/ \E k \in 1 .. Len(net) :
          /\ net[k].inst = "dm"
          /\ \/ net[k].op = "importPost"
             \/ net[k].op = "load" /\ net[k].cause = "import"

\* handleImport: setImporting(true), a FileReader with its onload, and
\* reader.readAsText(file). The onload holds the reloadData of this render.
\* The file input is disabled while importing.
HandleImport(file) ==
    /\ ~TimerReady
    /\ Visible
    /\ mounted["dm"]
    /\ ~Importing
    /\ Press("import")
    /\ Len(net) + Len(readers) < MaxInFlight
    /\ readers' = Append(readers, [inst |-> "dm", file |-> file,
                                   captured |-> error["dm"]])
    /\ last' = Step("importStart", "dm", TRUE, 0, file.kind)
    /\ UNCHANGED << renderVars, timers, net, stored, root, faults, nextId,
                    sentIds, anySaveOk, ls, gw >>

\* reader.onload up to its await fetch(POST): importData(text), then the
\* POST of what it returned; a text that does not validate ends in the
\* alert of the catch.
ReaderOnLoad(j) ==
    /\ ~TimerReady
    /\ j \in 1 .. Len(readers)
    /\ LET rd   == readers[j]
           r    == importData(rd.file)
           rest == RemoveAt(readers, j)
           sent == IF r.threw THEN net
                   ELSE Append(net, Request(rd.inst, "importPost", r.value, 0,
                                            rd.captured, "import"))
       IN  /\ IF rd.inst \in DetachedInsts
              THEN RenderNothing(rd.inst, retryCountRef[rd.inst], timers,
                                 sent, rest)
              ELSE Render(rd.inst, [readers |-> rest, net |-> sent])
           /\ last' = Step("import", rd.inst, ~r.threw,
                           IF rd.file.arrays THEN 1 ELSE 0, rd.file.kind)
    /\ UNCHANGED << stored, root, faults, presses, nextId, sentIds, anySaveOk,
                    ls, gw >>

\* The POST of reader.onload settles: on an OK response, which the handler
\* gives once it has stored the document, DataManager awaits the
\* reloadData of its own hook; otherwise the catch alerts.
ImportResponse(i, k, ok) ==
    /\ ~TimerReady
    /\ k \in 1 .. Len(net)
    /\ net[k].inst = i
    /\ net[k].op = "importPost"
    /\ SaveSettles(k, ok)
    /\ IF ok
       THEN reloadData(i, net[k].captured, "import", net[k].data,
                       RemoveAt(net, k))
       ELSE IF i \in DetachedInsts
       THEN RenderNothing(i, retryCountRef[i], timers, RemoveAt(net, k),
                          readers)
       ELSE Render(i, [net |-> RemoveAt(net, k)])
    /\ last' = Step("importPosted", i, ok, 0, "none")
    /\ UNCHANGED << stored, root, presses, nextId, sentIds, anySaveOk, ls, gw >>

\* ------------------------------------------------------------------------
\* Export and import as pure functions, in both gateways
\* ------------------------------------------------------------------------

\* Largest number of tasks in a state handed to exportData.
MaxExportTasks == 2

\* A task with every field of the Task interface the gateways look at.
FullTask(id, status, assignedTo, createdAt, completedAt, details) ==
    [id |-> id, name |-> "Fix login", points |-> 10, status |-> status,
     assignedTo |-> assignedTo, createdAt |-> Some(DateOf(createdAt)),
     completedAt |-> completedAt, completionDetails |-> details]

FullTasks ==
    {FullTask("task-1", "backlog", NoDev, 1, Absent, Absent),
     FullTask("task-2", "assigned", "dev-1", 2, Absent, Absent),
     FullTask("task-3", "completed", "dev-1", 1, Some(DateOf(2)), Some(8))}

FullDevelopers ==
    {<< >>,
     << [id |-> "dev-1", name |-> "Alice", totalPoints |-> 10,
         completedTasks |-> 1, totalHours |-> 8] >>}

\* Valid AppStates: typed as types.ts says, with the non-empty ids and
\* names the forms enforce.
SeqsUpTo(S, n) == UNION {[1 .. m -> S] : m \in 0 .. n}

ValidStates ==
    {[tasks |-> t, developers |-> d] :
        t \in SeqsUpTo(FullTasks, MaxExportTasks), d \in FullDevelopers}

\* exportData of storage.ts: the same document as the API gateway's.
lsExportData(s) == ImportFile("object", TRUE, Stringify(s))

\* JSON.parse of a file as validateStorageData of storage.ts reads it: the
\* points and totalPoints of an exported state are JSON numbers.
LsParsed(file) ==
    [tasks |->
        IF file.arrays
        THEN JsonArray([k \in 1 .. Len(file.doc.tasks) |->
                 [id |-> file.doc.tasks[k].id, name |-> file.doc.tasks[k].name,
                  pointsType |-> "number", status |-> file.doc.tasks[k].status]])
        ELSE NotAnArray,
     developers |->
        IF file.arrays
        THEN JsonArray([k \in 1 .. Len(file.doc.developers) |->
                 [id |-> file.doc.developers[k].id,
                  name |-> file.doc.developers[k].name,
                  totalPointsType |-> "number"]])
        ELSE NotAnArray]

\* importData of storage.ts: parse, validate every entry, deserialize.
lsImportData(file) ==
    IF file.kind = "object" /\ validateStorageData(LsParsed(file))
    THEN Returned(lsDeserializeDates(
             [tasks |-> JsonArray(file.doc.tasks),
              developers |-> JsonArray(file.doc.developers)]))
    ELSE Thrown

\* A caller exports s with apiStorage.ts and imports the text again.
ApiTransfer(s) ==
    /\ gw' = [gw EXCEPT !.api = Call("apiTransfer", s,
                                     importData(exportData(s)).threw,
                                     importData(exportData(s)).value)]
    /\ UNCHANGED << hookVars, ghostVars, ls, stored, readers, root, faults, presses,
                    nextId >>

\* The same with storage.ts.
LsTransfer(s) ==
    /\ gw' = [gw EXCEPT !.ls = Call("lsTransfer", s,
                                    lsImportData(lsExportData(s)).threw,
                                    lsImportData(lsExportData(s)).value)]
    /\ UNCHANGED << hookVars, ghostVars, ls, stored, readers, root, faults, presses,
                    nextId >>

\* ------------------------------------------------------------------------
\* utils.ts: validateCompletionForm
\* ------------------------------------------------------------------------

\* A string is a sequence of runs: count times the same character.
Run(char, count) == [char |-> char, count |-> count]

Whitespace == {" ", "\t"}

HexChars ==
    {"0", "1", "2", "3", "4", "5", "6", "7", "8", "9",
     "a", "b", "c", "d", "e", "f", "A", "B", "C", "D", "E", "F"}

RECURSIVE TrimStart(_)
TrimStart(str) ==
    IF str # << >> /\ Head(str).char \in Whitespace
    THEN TrimStart(Tail(str))
    ELSE str

RECURSIVE TrimEnd(_)
TrimEnd(str) ==
    IF str # << >> /\ str[Len(str)].char \in Whitespace
    THEN TrimEnd(SubSeq(str, 1, Len(str) - 1))
    ELSE str

\* String.prototype.trim
Trim(str) == TrimEnd(TrimStart(str))

RECURSIVE Length(_)
Length(str) ==
    IF str = << >> THEN 0 ELSE Head(str).count + Length(Tail(str))

\* /^[a-f0-9]{6,40}$/i.test(str)
MatchesCommitHash(str) ==
    /\ \A k \in 1 .. Len(str) : str[k].char \in HexChars
    /\ Length(str) >= 6
    /\ Length(str) <= 40

ValidationError(field, message) == [field |-> field, message |-> message]

\* The check of hoursSpent with < in place of <=.
validateCompletionForm_ZeroHoursPass(data) ==
    LET hours ==
            IF data.hoursSpent < 0
            THEN << ValidationError("hoursSpent",
                                    "Hours spent must be greater than 0") >>
            ELSE << >>
        commit ==
            IF Trim(data.gitCommit) = << >>
            THEN << ValidationError("gitCommit",
                                    "Git commit reference is required") >>
            ELSE IF ~MatchesCommitHash(Trim(data.gitCommit))
            THEN << ValidationError("gitCommit",
                        "Git commit must be a valid hash (6-40 characters)") >>
            ELSE << >>
        comments ==
            IF Trim(data.comments) = << >>
            THEN << ValidationError("comments",
                                    "Completion comments are required") >>
            ELSE << >>
        errors == hours \o commit \o comments
    IN  [isValid |-> errors = << >>, errors |-> errors]

validateCompletionForm(data) ==
    LET hours ==
            IF data.hoursSpent <= 0
            THEN << ValidationError("hoursSpent",
                                    "Hours spent must be greater than 0") >>
            ELSE << >>
        commit ==
            IF Trim(data.gitCommit) = << >>
            THEN << ValidationError("gitCommit",
                                    "Git commit reference is required") >>
            ELSE IF ~MatchesCommitHash(Trim(data.gitCommit))
            THEN << ValidationError("gitCommit",
                        "Git commit must be a valid hash (6-40 characters)") >>
            ELSE << >>
        comments ==
            IF Trim(data.comments) = << >>
            THEN << ValidationError("comments",
                                    "Completion comments are required") >>
            ELSE << >>
        errors == hours \o commit \o comments
    IN  [isValid |-> errors = << >>, errors |-> errors]

\* The values the completion form is validated with. hoursSpent is 0 or
\* parseFloat(e.target.value) || 0 (AddTaskModal.tsx 786, 902): a number,
\* never NaN.
HoursSpentInputs == {-1, 0, 1, 8}

GitCommitInputs ==
    {<< >>,
     << Run(" ", 2) >>,
     << Run("a", 5) >>,
     << Run("a", 6) >>,
     << Run("F", 6) >>,
     << Run("9", 40) >>,
     << Run("9", 41) >>,
     << Run("g", 6) >>,
     << Run("x", 1), Run("y", 1), Run("z", 1) >>,
     << Run(" ", 1), Run("a", 3), Run("B", 3), Run("1", 1), Run("\t", 1) >>,
     << Run("a", 3), Run(" ", 1), Run("b", 3) >>}

CommentsInputs == {<< >>, << Run(" ", 3) >>, << Run("d", 4) >>}

CompletionForms ==
    {[hoursSpent |-> h, gitCommit |-> g, comments |-> c] :
        h \in HoursSpentInputs, g \in GitCommitInputs, c \in CommentsInputs}

\* A caller validates a completion form.
ValidateCompletionForm(data) ==
    /\ gw' = [gw EXCEPT !.api = Call("validateCompletionForm", data, FALSE,
                                     validateCompletionForm(data))]
    /\ UNCHANGED << hookVars, ghostVars, ls, stored, readers, root, faults, presses,
                    nextId >>


\* ------------------------------------------------------------------------
\* Specifications
\* ------------------------------------------------------------------------

\* A document some earlier session left in the store.
SeedDoc == [tasks |-> << NewTask(0, 10) >>, developers |-> << >>]

\* What the store holds when the page is opened.
StoredDocs == {SeedDoc}

\* The ids of the tasks on the board: that of the stored task and those
\* handleCreateTask makes.
BoardTaskIds == 0 .. MaxCreates

\* What is rendered: the page, whose KanbanBoard renders DataManager, or
\* the hook on its own, as renderHook does in the tests, or neither.
Roots == {"KanbanBoard", "renderHook", "gateway"}

\* A hook instance that is not mounted holds what useState and useRef
\* start with.
Unmounted ==
    /\ state = [i \in Inst |-> EmptyState]
    /\ isLoading = [i \in Inst |-> TRUE]
    /\ error = [i \in Inst |-> NoError]
    /\ isSaving = [i \in Inst |-> FALSE]
    /\ lastSaved = [i \in Inst |-> Absent]
    /\ retryCountRef = [o \in Owners |-> 0]
    /\ editingDeveloper = NoEdit
    /\ sinceChange = [i \in Inst |-> 0]

\* Nothing has been pressed, sent or called.
Untouched ==
    /\ readers = << >>
    /\ faults = 0
    /\ presses = [b \in Buttons |-> 0]
    /\ nextId = 0
    /\ sentIds = {}
    /\ errorsShown = {NoError}
    /\ ls = LsEmpty
    /\ gw = NoCalls

\* The hook has just mounted: its first render is done, the mount effect
\* has called loadDataWithRetry(), whose fetch is in flight, and the
\* auto-save effect has run once.
Mounted(r, docs) ==
    /\ Unmounted
    /\ Untouched
    /\ root = r
    /\ mounted = [i \in Inst |-> i = "board"]
    /\ timers = IF AutoSaveRuns("board", TRUE, TRUE)
                THEN debounce(<< >>, "board", EmptyState, "mount")
                ELSE << >>
    /\ net = << Request("board", "load", EmptyState, 0, NoError, "mount") >>
    /\ stored \in docs
    /\ anySaveOk = FALSE
    /\ last = NoStep

\* The page has just been opened.
Init == Mounted("KanbanBoard", StoredDocs)

\* The page: the board, DataManager, the developer modal, the timers, the
\* route handlers behind a network that may fail any request, and whoever
\* else clears the store. A run holds MaxPageEvents user actions and failed
\* requests, in any order and any interleaving with the responses and
\* timers; a response that fails is taken only while there is room for it.
Next ==
    \/ \E k \in 1 .. Len(net), kvOk \in BOOLEAN :
          (kvOk \/ Spare) /\ Serve(k, kvOk)
    \/ \E i \in Owners, k \in 1 .. Len(net), o \in LoadOutcomes :
          (o \in ServedOutcomes \/ Spare) /\ LoadResponse(i, k, o)
    \/ \E i \in Owners, k \in 1 .. Len(net), ok \in BOOLEAN :
          /\ ok \/ Spare \/ net[k].served = "kvError"
          /\ SaveResponse(i, k, ok)
          /\ WithinPageEvents'
    \/ TimerFire
    \/ Tick
    \/ \E j \in 1 .. Len(readers) : ReaderOnLoad(j)
    \/ \E i \in Owners, k \in 1 .. Len(net), ok \in BOOLEAN :
          /\ ok \/ Spare \/ net[k].served = "kvError"
          /\ ImportResponse(i, k, ok)
          /\ WithinPageEvents'
    \/ \E k \in 1 .. Len(net), ok \in BOOLEAN :
          /\ ok \/ Spare \/ net[k].served = "kvError"
          /\ ApiClearDataReturns(k, ok)
          /\ WithinPageEvents'
    \/ ClearError
    \/ \E name \in DeveloperNames :
          UNCHANGED presses /\ HandleUpdateDeveloper(name)
    \/ HandleCancelEdit
    \/ \E p \in CreatePoints :
          Spare /\ UNCHANGED presses /\ HandleCreateTask(p)
    \/ \E id \in BoardTaskIds, c \in {"backlog"} \cup BoardDevIds :
          Spare /\ Press("drop") /\ HandleTaskDrop(id, c)
    \/ \E id \in BoardTaskIds, h \in HourValues :
          Spare /\ Press("complete") /\ HandleTaskCompletionSubmit(id, h)
    \/ \E id \in GeneratedIds, name \in DeveloperNames :
          Spare /\ Press("addDeveloper") /\ HandleAddDeveloper(id, name)
    \/ \E id \in BoardDevIds :
          Spare /\ Press("updateDeveloper") /\ HandleEditDeveloper(id)
    \/ \E id \in BoardDevIds :
          Spare /\ Press("deleteDeveloper") /\ HandleDeleteDeveloper(id)
    \/ \E i \in Inst : Spare /\ Press("sweep") /\ Sweep(i)
    \/ Spare /\ ForceSave
    \/ Spare /\ ReloadData
    \/ \E f \in ImportFiles : Spare /\ HandleImport(f)
    \/ Spare /\ ApiClearData

Spec == Init /\ [][Next]_vars

\* The hook on its own, once it has loaded an empty store and saved what
\* it loaded.
InitReconciler ==
    /\ Untouched
    /\ root = "renderHook"
    /\ state = [i \in Inst |-> EmptyState]
    /\ isLoading = [i \in Inst |-> i # "board"]
    /\ error = [i \in Inst |-> NoError]
    /\ isSaving = [i \in Inst |-> FALSE]
    /\ lastSaved = [i \in Inst |-> IF i = "board" THEN Some(TheDate) ELSE Absent]
    /\ retryCountRef = [o \in Owners |-> 0]
    /\ editingDeveloper = NoEdit
    /\ mounted = [i \in Inst |-> i = "board"]
    /\ timers = << >>
    /\ net = << >>
    /\ stored = EmptyState
    /\ sinceChange = [i \in Inst |-> IF i = "board" THEN DebounceDelay ELSE 0]
    /\ anySaveOk = TRUE
    /\ last = Step("saveDone", "board", TRUE, 0, "save")

\* The six mutation functions and the sweep, in any order, with any
\* argument.
NextReconciler ==
    \/ \E t \in TaskInputs : UNCHANGED presses /\ AddTask(t)
    \/ \E id \in TaskIds, u \in TaskPatches :
          UNCHANGED presses /\ UpdateTask(id, u)
    \/ \E id \in TaskIds : UNCHANGED presses /\ DeleteTask(id)
    \/ \E d \in DeveloperInputs : UNCHANGED presses /\ AddDeveloper(d)
    \/ \E d \in DeveloperInputs : UNCHANGED presses /\ UpdateDeveloper(d)
    \/ \E id \in DevIds : UNCHANGED presses /\ DeleteDeveloper(id)
    \/ UNCHANGED presses /\ Sweep("board")

SpecReconciler == InitReconciler /\ [][NextReconciler]_vars

\* The page at rest: the board and DataManager have each loaded the empty
\* store and saved what they loaded.
InitBoard ==
    /\ Untouched
    /\ root = "KanbanBoard"
    /\ state = [i \in Inst |-> EmptyState]
    /\ isLoading = [i \in Inst |-> FALSE]
    /\ error = [i \in Inst |-> NoError]
    /\ isSaving = [i \in Inst |-> FALSE]
    /\ lastSaved = [i \in Inst |-> Some(TheDate)]
    /\ retryCountRef = [o \in Owners |-> 0]
    /\ editingDeveloper = NoEdit
    /\ mounted = [i \in Inst |-> TRUE]
    /\ timers = << >>
    /\ net = << >>
    /\ stored = EmptyState
    /\ sinceChange = [i \in Inst |-> DebounceDelay]
    /\ anySaveOk = TRUE
    /\ last = Step("saveDone", "board", TRUE, 0, "save")

\* How many times the developer modal has been used to add a developer or
\* to start an edit.
ModalUses == presses["addDeveloper"] + presses["updateDeveloper"]

\* Largest number of uses of the developer modal in one run of the board.
MaxModalUses == 1

\* What a user of the board can do with tasks and developers, and the
\* sweep of either hook: create a task, drop a task on a column, submit a
\* completion, add, edit and delete a developer in the management modal.
NextBoard ==
    \/ \E p \in CreatePoints :
          UNCHANGED presses /\ CreateTaskWithin(p, MaxBoardCreates)
    \/ \E id \in TaskIds, c \in {"backlog"} \cup BoardDevIds :
          UNCHANGED presses /\ HandleTaskDrop(id, c)
    \/ \E id \in TaskIds, h \in HourValues :
          UNCHANGED presses /\ HandleTaskCompletionSubmit(id, h)
    \/ \E id \in GeneratedIds, name \in DeveloperNames :
          /\ ModalUses < MaxModalUses
          /\ Press("addDeveloper")
          /\ HandleAddDeveloper(id, name)
    \/ \E id \in BoardDevIds :
          /\ ModalUses < MaxModalUses
          /\ Press("updateDeveloper")
          /\ HandleEditDeveloper(id)
    \/ \E name \in DeveloperNames :
          UNCHANGED presses /\ HandleUpdateDeveloper(name)
    \/ HandleCancelEdit
    \/ \E id \in BoardDevIds :
          UNCHANGED presses /\ HandleDeleteDeveloper(id)
    \/ \E i \in Inst : UNCHANGED presses /\ Sweep(i)

SpecBoard == InitBoard /\ [][NextBoard]_vars

\* A document with a completed task, as an earlier session stored it.
DoneDoc ==
    [tasks |-> << [NewTask(0, 10) EXCEPT !.status = "completed",
                                         !.assignedTo = "dev-1",
                                         !.completedAt = StringifyDate(Some(DateOf(1))),
                                         !.completionDetails = Some(8)] >>,
     developers |-> << Developer("dev-1", << "alice", "", 0 >>,
                                 [totalPoints |-> 10, completedTasks |-> 1,
                                  totalHours |-> 8]) >>]

ApiDocs == {SeedDoc, DoneDoc}

\* The two gateways on their own: no hook is mounted.
InitGateway ==
    /\ Unmounted
    /\ Untouched
    /\ root = "gateway"
    /\ mounted = [i \in Inst |-> FALSE]
    /\ timers = << >>
    /\ net = << >>
    /\ stored \in ApiDocs
    /\ anySaveOk = FALSE
    /\ last = NoStep

\* The localStorage gateway has not been touched yet.
LsUntouched == ls = LsEmpty /\ gw.ls = NoCall

\* The gateways' loads, between other sessions' writes and storage
\* faults. The two gateways share nothing, so the calls of the API gateway
\* are run before those of the localStorage gateway: any other order
\* reaches the same pairs of results.
NextGateway ==
    \/ \E raw \in RawValues : net = << >> /\ StoreRaw(raw)
    \/ \E g \in BOOLEAN, p \in BOOLEAN : net = << >> /\ StorageFault(g, p)
    \/ net = << >> /\ LsLoadData
    \/ LsUntouched /\ ApiLoadData
    \/ \E k \in 1 .. Len(net), kvOk \in BOOLEAN : Serve(k, kvOk)
    \/ \E k \in 1 .. Len(net), o \in LoadOutcomes : ApiLoadDataReturns(k, o)

SpecGateway == InitGateway /\ [][NextGateway]_vars

\* The localStorage gateway's saveData called with any state, between
\* other sessions' writes and storage faults.
NextSave ==
    \/ \E s \in SaveInputs : LsSaveData(s)
    \/ \E raw \in RawValues : StoreRaw(raw)
    \/ \E g \in BOOLEAN, p \in BOOLEAN : StorageFault(g, p)

SpecSave == InitGateway /\ [][NextSave]_vars

\* Largest number of calls of addTask, forceSave and reloadData in one run
\* of the hook on its own; clearError is called while fewer were made.
MaxHookCalls == 2

\* The hook on its own, as renderHook mounts it in the tests: the
\* responses and timers, the 30 s sweep, and calls of addTask, forceSave,
\* reloadData (of this render or of an earlier one) and clearError at any
\* moment, behind a network that may fail.
NextHook ==
    \/ \E k \in 1 .. Len(net), kvOk \in BOOLEAN : Serve(k, kvOk)
    \/ \E k \in 1 .. Len(net), o \in LoadOutcomes : LoadResponse("board", k, o)
    \/ \E k \in 1 .. Len(net), ok \in BOOLEAN : SaveResponse("board", k, ok)
    \/ TimerFire
    \/ Tick
    \/ UNCHANGED presses /\ Sweep("board")
    \/ \E p \in CreatePoints :
          Acted < MaxHookCalls /\ UNCHANGED presses /\ CallAddTask(p)
    \/ Acted < MaxHookCalls /\ CallForceSave
    \/ \E captured \in errorsShown :
          Acted < MaxHookCalls /\ CallReloadData(captured)
    \/ Acted < MaxHookCalls /\ CallClearError

\* What the store holds when the tests mount the hook.
HookDocs == {EmptyState, SeedDoc}

SpecHook == Mounted("renderHook", HookDocs) /\ [][NextHook]_vars

\* Loading and saving without the mutations: the responses and timers, and
\* calls of forceSave, reloadData (of this render or of an earlier one)
\* and clearError at any moment, behind a network that may fail any
\* request.
NextLoading ==
    \/ \E k \in 1 .. Len(net), kvOk \in BOOLEAN : Serve(k, kvOk)
    \/ \E k \in 1 .. Len(net), o \in LoadOutcomes : LoadResponse("board", k, o)
    \/ \E k \in 1 .. Len(net), ok \in BOOLEAN : SaveResponse("board", k, ok)
    \/ TimerFire
    \/ Tick
    \/ Acted < MaxHookCalls /\ CallForceSave
    \/ \E captured \in errorsShown :
          Acted < MaxHookCalls /\ CallReloadData(captured)
    \/ Acted < MaxHookCalls /\ CallClearError

\* A step of the event loop: a request in flight is served or answered, a
\* due timeout fires, or time passes while one is pending.
Settle ==
    \/ \E k \in 1 .. Len(net), kvOk \in BOOLEAN : Serve(k, kvOk)
    \/ \E k \in 1 .. Len(net), o \in LoadOutcomes : LoadResponse("board", k, o)
    \/ \E k \in 1 .. Len(net), ok \in BOOLEAN : SaveResponse("board", k, ok)
    \/ TimerFire
    \/ Tick

\* Every fetch settles and every timeout runs: the event loop does not stop
\* while a request or a timeout is pending.
FairLoading == WF_vars(Settle)

\* The stored document the loading runs start from.
LoadingDocs == {SeedDoc}

SpecLoading == Mounted("renderHook", LoadingDocs) /\ [][NextLoading]_vars /\ FairLoading


\* The two gateways' export and import, called on any valid state.
NextTransfer ==
    \/ \E s \in ValidStates : ApiTransfer(s)
    \/ \E s \in ValidStates : LsTransfer(s)

SpecTransfer == InitGateway /\ [][NextTransfer]_vars

\* The validation helper called on any form.
NextForms == \E data \in CompletionForms : ValidateCompletionForm(data)

SpecForms == InitGateway /\ [][NextForms]_vars

\* ------------------------------------------------------------------------
\* Properties of the state reconciler
\* ------------------------------------------------------------------------

Board == state["board"]

StatsMatch(s, d) ==
    LET mine == SelectSeq(s.tasks, LAMBDA t : t.assignedTo = d.id
                                              /\ t.status = "completed")
    IN  /\ d.totalPoints = SumPoints(mine)
        /\ d.completedTasks = Len(mine)
        /\ d.totalHours = SumHours(mine)

\* C1: in every state reached from the empty state by the mutation
\* functions, every developer record carries exactly the points, count and
\* hours of the completed tasks assigned to it. (The sweep, which
\* SpecReconciler also runs, only touches tasks whose developer is not in
\* the list, so it cannot change the aggregate of a listed developer.)
StatsAreAggregates ==
    \A k \in 1 .. Len(Board.developers) : StatsMatch(Board, Board.developers[k])

SameCompletion(t, u) ==
    /\ u.status = t.status
    /\ u.assignedTo = t.assignedTo
    /\ u.completedAt = t.completedAt
    /\ u.completionDetails = t.completionDetails

\* C5: no deleteDeveloper call and no run of the sweep changes the status,
\* assignedTo, completedAt or completionDetails of a task that is completed.
CompletedTasksUntouched ==
    [][last'.kind \in {"deleteDeveloper", "sweep"} =>
          /\ Len(Board'.tasks) = Len(Board.tasks)
          /\ \A k \in 1 .. Len(Board.tasks) :
                Board.tasks[k].status = "completed" =>
                    SameCompletion(Board.tasks[k], Board'.tasks[k])]_vars

\* C6: deleteDeveloper(D) removes D and leaves every other developer record
\* as it was; a task of D that was not completed is in the backlog with no
\* assignee; a completed task of D and every task of anyone else is
\* unchanged.
DeleteDeveloperContract ==
    [][last'.kind = "deleteDeveloper" =>
          LET D == last'.cause
          IN  /\ ~HasDeveloper(Board'.developers, D)
              /\ Board'.developers =
                    SelectSeq(Board.developers, LAMBDA d : d.id # D)
              /\ Len(Board'.tasks) = Len(Board.tasks)
              /\ \A k \in 1 .. Len(Board.tasks) :
                    LET t == Board.tasks[k]
                        u == Board'.tasks[k]
                    IN  IF t.assignedTo = D /\ t.status # "completed"
                        THEN /\ u.status = "backlog"
                             /\ u.assignedTo = NoDev
                             /\ u.id = t.id
                             /\ u.points = t.points
                        ELSE u = t]_vars

\* C6 witness: deleteDeveloper has just removed a developer who had a task
\* to hand back and a completed task to keep, another developer remaining.
DeleteDeveloperActed ==
    /\ last.kind = "deleteDeveloper"
    /\ last.n >= 1
    /\ Board.developers # << >>
    /\ \E k \in 1 .. Len(Board.tasks) :
          /\ Board.tasks[k].status = "completed"
          /\ Board.tasks[k].assignedTo = last.cause

\* ------------------------------------------------------------------------
\* Properties of the hook against a failing store
\* ------------------------------------------------------------------------

\* C2: the board held by the hook changes only by a mutation, by the sweep
\* or by a load the user asked for (the mount, the Reload button, Try
\* Again); a failed save, and the error it surfaces, never replaces it.
FailedSaveKeepsBoard ==
    [][Board' # Board =>
          \/ last'.kind \in {"createTask", "sweep"}
          \/ /\ last'.kind = "loadDone"
             /\ last'.cause \in {"mount", "reload", "clearError"}]_vars

Quiescent == timers = << >> /\ net = << >>

\* error has held a 'Failed to save data' message.
SaveErrorShown == errorsShown \cap {FailedSave, FailedManual} # {}

\* C3: once everything has settled after a single mutation with every save
\* attempt failed, error has been set to a 'Failed to save data' message.
SingleMutationSaveErrorSurfaces ==
    (Quiescent /\ nextId = 1 /\ ~anySaveOk /\ ~isLoading["board"])
        => SaveErrorShown

SaveSendKinds == {"debounce", "saveRetry", "forceSave"}

\* C4: every save request, when it is sent, carries every task that a save
\* request sent before it (since the board was last loaded) carried.
SavesNeverGoBackwards ==
    [][last'.kind \in SaveSendKinds =>
          sentIds \subseteq TaskIdsOf(net'[Len(net) + 1].data)]_vars

DebounceTimers(i) ==
    SelectSeq(timers, LAMBDA t : t.inst = i /\ t.kind = "debounce")

\* C7: a debounced save is sent only after 500 ms without a state change
\* and carries the state of the last change, and a burst leaves one pending
\* save: there is never more than one debounce timeout.
DebouncedSaveCarriesLastState ==
    [][/\ last'.kind = "debounce" =>
            /\ net'[Len(net) + 1].data = Board
            /\ sinceChange["board"] >= DebounceDelay
       /\ Len(DebounceTimers("board"))' <= 1]_vars

\* C8: a failed load is followed by a retry after 1 s x attempt number, or,
\* once three retries have failed, by the 'Failed to load data' error and
\* the empty state.
LoadFailureRetriesThenFails ==
    [][(last'.kind = "loadDone" /\ ~last'.ok) =>
          \/ \E k \in 1 .. Len(timers') :
                /\ timers'[k].kind = "loadRetry"
                /\ timers'[k].retryCount = last'.n + 1
                /\ timers'[k].remaining = RetryDelay(last'.n + 1)
          \/ /\ last'.n >= maxRetries
             /\ error'["board"] = FailedLoad
             /\ Board' = EmptyState]_vars

\* ------------------------------------------------------------------------
\* Properties of the gateways
\* ------------------------------------------------------------------------

\* The inputs on which a load has nothing to return: the request failed,
\* the response was not OK or not JSON, the server could not read the
\* store; the stored text is not JSON or not a document, or cannot be read.
ApiFailureInputs == FailedOutcomes

LsFailureInputs == {"garbage", "null", "number", "getItemThrows"}

\* C9: neither gateway's load throws to its caller, and on every transport
\* failure, non-OK response and stored value that cannot be parsed it
\* returns {tasks: [], developers: []}.
LoadFailsSoft ==
    /\ ~gw.api.threw
    /\ ~gw.ls.threw
    /\ gw.api.input \in ApiFailureInputs => gw.api.value = EmptyState
    /\ gw.ls.input \in LsFailureInputs => gw.ls.value = EmptyState

\* C9 witness: the API load has met a rejected fetch and the localStorage
\* load a text that is not JSON, which it backed up.
LoadsMetFailure ==
    /\ gw.api.call = "apiLoad"
    /\ gw.api.input = "networkError"
    /\ gw.ls.call = "lsLoad"
    /\ gw.ls.input = "garbage"
    /\ Raw("garbage", EmptyDoc) \in ls.backups

\* ------------------------------------------------------------------------
\* Properties of the import
\* ------------------------------------------------------------------------

\* C10: when an import has succeeded (the file validated, the store took
\* the document, the reload that handleImport awaits has returned), the
\* state of the board's hook is the imported document.
ImportReplacesBoard ==
    [][(last'.kind = "loadDone" /\ last'.cause = "import" /\ last'.ok) =>
          Board' = importData(exportData(ImportDoc)).value]_vars

\* C11: when handleImport is given a file that is not JSON, or whose tasks
\* or developers is not an array, the step issues no POST, leaves the stored
\* document as it was and leaves the tasks and developers of both hook
\* instances as they were.
RejectedImportWritesNothing ==
    [][(last'.kind = "import" /\ (last'.cause # "object" \/ last'.n = 0)) =>
          /\ net' = net
          /\ stored' = stored
          /\ state' = state]_vars

\* A file was rejected by the import while the board held a loaded task.
ImportRejected ==
    /\ last.kind = "import"
    /\ ~last.ok
    /\ last.cause \in {"garbage", "object"}
    /\ Board.tasks # << >>

\* C12: for every valid state s, importData(exportData(s)) of apiStorage.ts
\* and of storage.ts returns, without throwing, tasks and developers equal
\* to those of s, a date being equal when it denotes the same instant.
ExportImportRoundTrip ==
    /\ gw.api.call = "apiTransfer" =>
          ~gw.api.threw /\ gw.api.value = gw.api.input
    /\ gw.ls.call = "lsTransfer" =>
          ~gw.ls.threw /\ gw.ls.value = gw.ls.input

\* Both gateways have taken a state with a completed, dated task through
\* export and import.
RoundTripsDone ==
    /\ gw.api.call = "apiTransfer"
    /\ gw.ls.call = "lsTransfer"
    /\ \E k \in 1 .. Len(gw.api.input.tasks) :
          gw.api.input.tasks[k].completedAt # Absent
    /\ \E k \in 1 .. Len(gw.ls.input.tasks) :
          gw.ls.input.tasks[k].completedAt # Absent

\* The task the last addTask appended.
AddedTask(s) == s.tasks[Len(s.tasks)]

\* The records of s.developers with this id.
RecordsOf(s, id) == {k \in 1 .. Len(s.developers) : s.developers[k].id = id}

\* The developers named by some task of s that have no record in
\* developers.
Unprovisioned(tasks, developers) ==
    {tasks[k].assignedTo : k \in 1 .. Len(tasks)}
        \ ({NoDev} \cup {developers[k].id : k \in 1 .. Len(developers)})

HasZeroStats(d) ==
    d.totalPoints = 0 /\ d.completedTasks = 0 /\ d.totalHours = 0

\* C13 as stated: addTask(t) with t.assignedTo = X, no developer having id
\* X, adds exactly one developer record, with id X and all three statistics
\* 0, and no other developer record.
AddTaskProvisionsOneZeroedDeveloper ==
    [][(last'.kind = "addTask" /\ last'.cause = "unknownDeveloper") =>
          /\ Len(Board'.developers) = Len(Board.developers) + 1
          /\ \A k \in 1 .. Len(Board.developers) :
                Board'.developers[k].id = Board.developers[k].id
          /\ LET d == Board'.developers[Len(Board'.developers)]
             IN  d.id = AddedTask(Board').assignedTo /\ HasZeroStats(d)]_vars

\* C13 amended: addTask(t) with t.assignedTo = X, no developer having id X,
\* appends exactly one record with id X, whose statistics are the aggregates
\* of the completed tasks assigned to X (all 0 when there is none, t
\* included), and besides it exactly one record for each other developer
\* that a task already on the board names and the board does not have; the
\* records that were there keep their place and id.
AddTaskProvisionsEveryUnknownDeveloper ==
    [][(last'.kind = "addTask" /\ last'.cause = "unknownDeveloper") =>
          LET X == AddedTask(Board').assignedTo
              missing == Unprovisioned(Board'.tasks, Board.developers)
          IN  /\ Cardinality(RecordsOf(Board', X)) = 1
              /\ \A k \in RecordsOf(Board', X) :
                    /\ k > Len(Board.developers)
                    /\ StatsMatch(Board', Board'.developers[k])
                    /\ (\A j \in 1 .. Len(Board'.tasks) :
                            ~(Board'.tasks[j].assignedTo = X
                              /\ Board'.tasks[j].status = "completed"))
                          => HasZeroStats(Board'.developers[k])
              /\ Len(Board'.developers) =
                    Len(Board.developers) + Cardinality(missing)
              /\ \A id \in missing : Cardinality(RecordsOf(Board', id)) = 1
              /\ \A k \in 1 .. Len(Board.developers) :
                    Board'.developers[k].id = Board.developers[k].id]_vars

\* addTask has just provisioned the developer its task named.
AddTaskProvisioned ==
    /\ last.kind = "addTask"
    /\ last.cause = "unknownDeveloper"
    /\ last.n >= 1

\* C14: updateTask applied to a task whose status is completed, with a
\* patch that sets another status, leaves the task's status completed and
\* its completionDetails as they were.
UpdateTaskKeepsCompletedTask ==
    [][(last'.kind = "updateTask" /\ last'.n # 0
            /\ last'.cause # "completed") =>
          \A k \in 1 .. Len(Board.tasks) :
              (Board.tasks[k].id = last'.n
                  /\ Board.tasks[k].status = "completed") =>
                /\ Board'.tasks[k].status = "completed"
                /\ Board'.tasks[k].completionDetails =
                      Board.tasks[k].completionDetails]_vars

\* C16: addDeveloper(d) when a developer with id d.id exists leaves tasks
\* and developers exactly as they were.
DuplicateAddDeveloperIsNoOp ==
    [][(last'.kind = "addDeveloper" /\ last'.cause = "duplicate") =>
          Board' = Board]_vars

\* addDeveloper was called with the id of a developer the board has.
DuplicateAddDeveloperCalled ==
    /\ last.kind = "addDeveloper"
    /\ last.cause = "duplicate"
    /\ Board.developers # << >>

\* C18: updateTask(id, patch) where no task has that id leaves tasks and
\* developers exactly as they were.
UpdateTaskUnknownIdIsNoOp ==
    [][(last'.kind = "updateTask" /\ last'.n = 0) => Board' = Board]_vars

\* C15: forceSave sends the state the hook holds at once, with no timer in
\* between; it resolves to true exactly when the route handler answered
\* that it stored the document, and lastSaved is then set; when the write
\* fails it resolves to false and sets an error, and neither that step nor
\* the error it set changes tasks or developers.
ForceSaveContract ==
    [][/\ last'.kind = "forceSave" =>
            /\ Len(net') = Len(net) + 1
            /\ net'[Len(net')].op = "forceSave"
            /\ net'[Len(net')].data = Board
            /\ net'[Len(net')].body = Stringify(Board)
            /\ timers' = timers
       /\ (last'.kind = "saveDone" /\ last'.cause = "forceSave") =>
            /\ Board' = Board
            /\ stored' = stored
            /\ IF last'.ok
               THEN /\ \E k \in 1 .. Len(net) :
                          /\ net[k].op = "forceSave"
                          /\ net[k].served = "ok"
                          /\ net' = RemoveAt(net, k)
                    /\ lastSaved'["board"] # Absent
               ELSE error'["board"] = FailedManual
       /\ (last'.kind = "loadDone" /\ last'.cause = "forceSaveFailed") =>
            Board' = Board]_vars

\* C17: in every state reached from the empty state by the mutation
\* functions, no two tasks have the same id and no two developers have the
\* same id.
IdsAreUnique ==
    /\ \A j, k \in 1 .. Len(Board.tasks) :
          Board.tasks[j].id = Board.tasks[k].id => j = k
    /\ \A j, k \in 1 .. Len(Board.developers) :
          Board.developers[j].id = Board.developers[k].id => j = k

\* C19: in every state the board reaches from the empty state by creating
\* tasks, dropping them on the backlog or a developer column, submitting
\* completions, deleting developers and running the sweep, a task has an
\* assignedTo exactly when its status is assigned or completed, and none
\* exactly when its status is backlog.
AssignedExactlyWhenNotBacklog ==
    \A k \in 1 .. Len(Board.tasks) :
        (Board.tasks[k].assignedTo # NoDev)
            <=> (Board.tasks[k].status \in {"assigned", "completed"})

\* A developer was deleted who had an open task, now back in the backlog,
\* and a completed one, which still names the developer.
DeveloperDeletedWithTasks ==
    /\ last.kind = "deleteDeveloper"
    /\ last.n = 1
    /\ \E k \in 1 .. Len(Board.tasks) :
          /\ Board.tasks[k].status = "completed"
          /\ Board.tasks[k].assignedTo = last.cause

\* hoursSpent > 0
HoursPositive(data) == data.hoursSpent > 0

\* The trimmed gitCommit is 6 to 40 hexadecimal characters.
CommitIsHash(data) ==
    LET t == Trim(data.gitCommit)
    IN  /\ Length(t) \in 6 .. 40
        /\ \A k \in 1 .. Len(t) : t[k].char \in HexChars

CommentsNonBlank(data) ==
    \E k \in 1 .. Len(data.comments) : data.comments[k].char \notin Whitespace

ErrorsFor(result, field) ==
    Cardinality({k \in 1 .. Len(result.errors) : result.errors[k].field = field})

\* C20: validateCompletionForm returns isValid = TRUE exactly when
\* hoursSpent > 0, the trimmed gitCommit is 6 to 40 hexadecimal characters
\* and comments is not blank; it returns exactly one error for each of the
\* three fields that is invalid and none for the others, and never throws.
CompletionFormValidation ==
    gw.api.call = "validateCompletionForm" =>
        LET data == gw.api.input
            result == gw.api.value
        IN  /\ ~gw.api.threw
            /\ result.isValid <=>
                  (HoursPositive(data) /\ CommitIsHash(data)
                      /\ CommentsNonBlank(data))
            /\ ErrorsFor(result, "hoursSpent") =
                  (IF HoursPositive(data) THEN 0 ELSE 1)
            /\ ErrorsFor(result, "gitCommit") =
                  (IF CommitIsHash(data) THEN 0 ELSE 1)
            /\ ErrorsFor(result, "comments") =
                  (IF CommentsNonBlank(data) THEN 0 ELSE 1)
            /\ Len(result.errors) =
                  ErrorsFor(result, "hoursSpent")
                      + ErrorsFor(result, "gitCommit")
                      + ErrorsFor(result, "comments")

\* C20 witness: a form whose three fields are all invalid has been
\* validated and got three errors, one for each field.
ThreeInvalidFieldsValidated ==
    /\ gw.api.call = "validateCompletionForm"
    /\ ~HoursPositive(gw.api.input)
    /\ ~CommitIsHash(gw.api.input)
    /\ ~CommentsNonBlank(gw.api.input)
    /\ Len(gw.api.value.errors) = 3
    /\ ~gw.api.value.isValid

\* C21: a load that failed never has its empty fallback state sent to the
\* store: as long as the user makes no mutation, neither a debounced save
\* nor a retry of one carries the state a failed load fell back to while
\* the store holds a document.
FailedLoadIsNeverSaved ==
    [][(last'.kind \in {"debounce", "saveRetry"} /\ nextId' = 0
            /\ stored # EmptyState) =>
          net'[Len(net')].cause # "loadFellBack"]_vars

\* The step just taken set some task's assignedTo to D: an addTask of a
\* task assigned to D, or an updateTask that hit a task with a patch
\* assigning it to D.
StepAssignsTo(D) ==
    \/ last'.kind = "addTask" /\ AddedTask(Board').assignedTo = D
    \/ /\ last'.kind = "updateTask"
       /\ last'.cause = "assigned"
       /\ \E k \in 1 .. Len(Board.tasks) :
             Board.tasks[k].id = last'.n /\ Board'.tasks[k].assignedTo = D

\* C22: a developer that is not in developers (deleteDeveloper removed it)
\* stays absent through every addTask, updateTask and deleteTask that does
\* not itself set a task's assignedTo to it, whatever completed tasks still
\* name it.
DeletedDeveloperStaysAbsent ==
    [][last'.kind \in {"addTask", "updateTask", "deleteTask"} =>
          \A D \in DevIds :
              (~HasDeveloper(Board.developers, D) /\ ~StepAssignsTo(D))
                  => ~HasDeveloper(Board'.developers, D)]_vars

\* C23: one run of the sweep resets every task whose assignedTo names an id
\* absent from developers to backlog with assignedTo cleared, leaves every
\* other task and every developer record as it was, and, when no task is
\* orphaned, leaves the state unchanged and arms no save.
SweepResetsOrphansOnly ==
    [][last'.kind = "sweep" =>
          /\ Len(Board'.tasks) = Len(Board.tasks)
          /\ \A k \in 1 .. Len(Board.tasks) :
                IF k \in OrphanedTasks(Board)
                THEN /\ Board'.tasks[k].status = "backlog"
                     /\ Board'.tasks[k].assignedTo = NoDev
                     /\ Board'.tasks[k].id = Board.tasks[k].id
                ELSE Board'.tasks[k] = Board.tasks[k]
          /\ Board'.developers = Board.developers
          /\ (OrphanedTasks(Board) = {} =>
                 Board' = Board /\ timers' = timers /\ net' = net)]_vars

\* C23 witness: a sweep has just reset at least one orphaned task.
SweepResetOrphan == last.kind = "sweep" /\ last.n > 0

\* C24: under the board's actions a task is created in backlog, and a task
\* becomes completed only in a completion submitted for it while it has an
\* assignedTo developer, never straight from backlog.
BoardLifecycle ==
    [][/\ Len(Board'.tasks) >= Len(Board.tasks)
       /\ (last'.kind = "createTask" =>
              /\ Len(Board'.tasks) = Len(Board.tasks) + 1
              /\ AddedTask(Board').status = "backlog"
              /\ AddedTask(Board').assignedTo = NoDev)
       /\ \A k \in 1 .. Len(Board.tasks) :
              (Board'.tasks[k].status = "completed"
                   /\ Board.tasks[k].status # "completed") =>
                  /\ last'.kind = "taskCompletion"
                  /\ last'.n = Board.tasks[k].id
                  /\ Board.tasks[k].assignedTo # NoDev
                  /\ Board.tasks[k].status = "assigned"]_vars

\* C24 witness: a completion has just been submitted and its task is
\* completed.
TaskCompletedOnBoard ==
    /\ last.kind = "taskCompletion"
    /\ \E k \in 1 .. Len(Board.tasks) :
          Board.tasks[k].id = last.n /\ Board.tasks[k].status = "completed"

\* C25: isSaving is true whenever a save request of the hook (a debounced
\* save, a retry of it, or a forceSave) is in flight.
SavingWhileSaveInFlight ==
    \A k \in 1 .. Len(net) :
        (net[k].inst \in Inst /\ net[k].op \in {"save", "retrySave", "forceSave"})
            => isSaving[net[k].inst]

\* C26: a saveData call of the localStorage gateway that returns false
\* leaves the document under the main key exactly as it was before the call.
FailedLsSaveKeepsMainKey ==
    [][\A s \in SaveInputs :
          (LsSaveData(s) /\ ~lsSaveData(ls, s).ok) => ls'.main = ls.main]_vars

\* The text under the main key can be read and is not JSON, or is the JSON
\* text of an object that fails validateStorageData.
StoredDocIsCorrupt(store) ==
    /\ ~store.getItemThrows
    /\ \/ store.main.kind = "garbage"
       \/ store.main.kind = "object" /\ ~validateStorageData(store.main.doc)

\* C27: when loadData of the localStorage gateway finds the stored text
\* unparseable or structurally invalid, and localStorage accepts writes, the
\* raw text is under a backup key when loadData returns, whether it returns
\* the empty state or partially recovered entries.
CorruptDocIsBackedUp ==
    [][(LsLoadData /\ StoredDocIsCorrupt(ls) /\ ~ls.setItemThrows) =>
          ls.main \in ls'.backups]_vars

\* C28: in every state the six mutation operations reach from the empty
\* state, every task with status backlog or assigned that has an assignedTo
\* names a developer present in developers.
OpenTasksNameExistingDevelopers ==
    \A k \in 1 .. Len(Board.tasks) :
        (Board.tasks[k].status \in {"backlog", "assigned"}
             /\ Board.tasks[k].assignedTo # NoDev)
            => HasDeveloper(Board.developers, Board.tasks[k].assignedTo)

\* C28 witness: deleteDeveloper has just removed a developer and sent open
\* tasks of that developer back to the backlog.
DeveloperDeletedWithOpenTasks ==
    /\ last.kind = "deleteDeveloper"
    /\ last.n > 0
    /\ ~HasDeveloper(Board.developers, last.cause)
    /\ \E k \in 1 .. Len(Board.tasks) : Board.tasks[k].status = "backlog"

\* The load started by the mount effect has not settled: its request is in
\* flight or a retry of it is scheduled.
InitialLoadInProgress(i) ==
    \/ \E k \in 1 .. Len(net) :
          net[k].inst = i /\ net[k].op = "load" /\ net[k].cause = "mount"
    \/ \E k \in 1 .. Len(timers) :
          /\ timers[k].inst = i
          /\ timers[k].kind = "loadRetry"
          /\ timers[k].cause = "mount"

\* C29: no save request is issued while the initial load of a hook instance
\* is in progress: that instance has no save request in flight and no retry
\* of one scheduled, and no save of it reaches the route handler, so the
\* placeholder state is never written to the store before the load result
\* has replaced it.
NoSaveDuringInitialLoad ==
    [][\A i \in Inst :
          InitialLoadInProgress(i) =>
              /\ \A k \in 1 .. Len(net') :
                    net'[k].inst = i => net'[k].op \notin SaveOps
              /\ \A k \in 1 .. Len(timers') :
                    timers'[k].inst = i => timers'[k].kind # "saveRetry"
              /\ (last'.kind = "served" /\ last'.inst = i) =>
                    last'.cause \notin SaveOps]_vars

\* C30: after mount and after every reloadData call isLoading eventually
\* becomes false, whether the load succeeds or fails and whatever error
\* was when the load started.
IsLoadingSettles == isLoading["board"] ~> ~isLoading["board"]

====
